---- MODULE Spec2Model ----
(***************************************************************************)
(* Scoring and aggregation engine of signal-dashboard.                     *)
(*                                                                         *)
(* Numbers.  composite_score is kept in hundredths (5.5 is 550), a         *)
(* confidence in hundredths (0.8 is 80), exp(-0.05 * days) in             *)
(* ten-thousandths                                                         *)
(* (DecayScale).  A calendar date 'YYYY-MM-DD' is its day number; a stored *)
(* signal_date is a TEXT value, modelled by the day its first ten          *)
(* characters denote and by its form:                                      *)
(*   "date"      'YYYY-MM-DD'                                              *)
(*   "datetime"  'YYYY-MM-DD HH:MM:SS' (sorts after the bare date of the   *)
(*               same day and before the next day)                         *)
(*   "malformed" text that sorts like a datetime of that day but that      *)
(*               strptime rejects, e.g. '2024-05-1x'                       *)
(* The daily_scores columns id and computed_at (an audit timestamp that    *)
(* every upsert refreshes) are not part of the DailyScore content and are  *)
(* not modelled; a row is its key and its four content columns.            *)
(*                                                                         *)
(* Precision.  With the decay table rounded to four digits the composite   *)
(* agrees with the float computation to within 0.01; it is exact wherever  *)
(* the decay cancels (one signal, equal dates).  round(x, 2) resolves an   *)
(* exact decimal tie to the even neighbour; the binary representation of a *)
(* float can tip such a tie either way.                                    *)
(*                                                                         *)
(* Connection.  All handlers share one sqlite connection: an upsert is     *)
(* visible to every later read at once (scores) and becomes durable at the *)
(* next db.commit() of any handler (durable).  basis and orphaned are      *)
(* history variables: the ids of the signals a row was last computed from, *)
(* and the keys a failed run upserted that no commit has yet made durable. *)
(* Spec takes the aggregation runs one at a time (SerialStart), interleaved*)
(* step by step with the signal handlers and the clock; ScoreSpec calls    *)
(* _compute_score directly on every signals table of up to MaxRows rows.   *)
(*                                                                         *)
(* Feed.  FeedSpec computes the recent signals of get_dashboard for one    *)
(* thesis on tables of manual signals without keys (the fillers) and up to *)
(* MaxCands further rows; rows the ORDER BY ties come in any order.        *)
(* NormSpec calls _normalize_quote and _normalize_title on every text of   *)
(* up to MaxLen characters and on a text one character away from it.  A    *)
(* source_url is a token, compared as a whole.                             *)
(*                                                                         *)
(* Generator.  GenSpec takes generate_all runs one at a time, interleaved  *)
(* with fetched observations and deleted signals; a run is given the set   *)
(* of series whose processing raises (a failing statement of the           *)
(* connection).  ChangeSpec runs the generator on one series of two        *)
(* observations.  Observation values are integers and pct_change an exact  *)
(* fraction; the float computation agrees with it on these values.  The    *)
(* columns signal_type and data_point_id of signals are those the INSERT   *)
(* of _generate_for_series names.                                          *)
(*                                                                         *)
(* Further specifications.  OverlapSpec lets the scheduled run and a       *)
(* dashboard request overlap: both run on one event loop and every await   *)
(* of compute_daily_scores is a point where the other proceeds.  PairSpec  *)
(* calls _compute_score on two signals of opposite direction.  CrowdSpec   *)
(* computes the feed of a thesis with up to MaxSyndicated signals of one   *)
(* source_url and some signals of their own.  PreviousSpec answers a       *)
(* dashboard request over a history of daily_scores rows and reads         *)
(* get_previous_score.                                                     *)
(*                                                                         *)
(* Trend.  TrendSpec calls compute_trend_direction on series of scores.    *)
(* Its arithmetic is that of IEEE binary64, round to nearest, ties to      *)
(* even: a float is kept exactly, as a record [h, r] over a denominator D  *)
(* (RoundNearest); sum() adds left to right and rounds after every         *)
(* addition, the division by the window and the subtraction round once     *)
(* each.                                                                   *)
(***************************************************************************)
EXTENDS Integers, Sequences, FiniteSets, TLC

\* ---------------------------------------------------------------- bounds
\* signals ever inserted through the handlers (AUTOINCREMENT ids 1..MaxSignals)
MaxSignals == 1
\* the clock runs over the days 0..MaxDay
MaxDay == 1
\* rows of the signals table a direct _compute_score call is tried on
MaxRows == 2
\* rows of the signals table, next to the fillers, the feed is tried on
MaxCands == 3
\* characters of the texts the normalizers are tried on
MaxLen == 3
\* observations ever fetched, and signals the generator ever inserts
MaxPoints == 3
MaxDataSignals == 3

\* ------------------------------------------------------ program constants
\* timedelta(days=30)
Window == 30
\* the gauge, in hundredths: max(1.0, min(10.0, ...)), 5.5 + ..., 4.5 / 10.0
GaugeMin == 100
GaugeMax == 1000
GaugeMid == 550
\* raw_score * 4.5 / 10.0 in hundredths is raw_score * 45
GaugeSlope == 45
\* "composite_score": 5.0 of the empty case
NeutralScore == 500
\* VALUES (..., 1.0, ...) of a manual signal, in hundredths
ManualConfidence == 100
DecayScale == 10000
\* timedelta(hours=24) of the feed, and the hours of a day
FeedHours == 24
DayHours == 24
\* confidence = 0.8 of a data signal, in hundredths
DataConfidence == 80
\* LIMIT 50 of the feed query
QueryLimit == 50
\* if len(recent_signals) >= 10: break
FeedLimit == 10

\* SEED_THESES, in the order SELECT id FROM theses returns them
ThesisOrder == <<"ai_job_displacement", "ai_deflation">>
Theses == {ThesisOrder[i] : i \in 1..Len(ThesisOrder)}
Directions == {"supporting", "weakening"}
Runners == {"scheduler", "dashboard"}

\* round(exp(-0.05 * d) * DecayScale) for d = 0..30
DecayTable ==
  << 10000, 9512, 9048, 8607, 8187, 7788, 7408, 7047, 6703, 6376,
     6065, 5769, 5488, 5220, 4966, 4724, 4493, 4274, 4066, 3867,
     3679, 3499, 3329, 3166, 3012, 2865, 2725, 2592, 2466, 2346, 2231 >>

VARIABLES now, signals, nextId, scores, durable, run, basis, orphaned, ret,
          text, other, sig_rows, recent_signals, data_series, data_points, stats,
          trend_data

\* the arguments of the normalizers; the dashboard feed; the data-series tables
\* and the statistics of generate_all
normVars == <<text, other>>
feedVars == <<sig_rows, recent_signals>>
genVars == <<data_series, data_points, stats>>
\* the score series handed to compute_trend_direction
trendVars == <<trend_data>>

vars == <<now, signals, nextId, scores, durable, run, basis, orphaned, ret,
          normVars, feedVars, genVars, trendVars>>

\* ------------------------------------------------------------ arithmetic
Max(a, b) == IF a >= b THEN a ELSE b
Min(a, b) == IF a <= b THEN a ELSE b

\* round(x, 2) of x = n / d hundredths (d > 0): nearest, ties to even
RoundDiv(n, d) ==
  LET q == n \div d
      r == n % d
  IN  IF 2 * r < d THEN q
      ELSE IF 2 * r > d THEN q + 1
      ELSE IF q % 2 = 0 THEN q ELSE q + 1

RECURSIVE Decay(_)
\* math.exp(-0.05 * days_ago)
Decay(d) ==
  IF d <= Window THEN DecayTable[d + 1]
  ELSE (Decay(Window) * Decay(d - Window)) \div DecayScale

\* ------------------------------------------------------- signal_date TEXT
\* faulty variant: the lower end of the window compared with > instead of >=
TextGT(sd, day) == sd.day > day

\* SQL: signal_date >= 'YYYY-MM-DD' (text comparison with a bare date)
TextGE(sd, day) == sd.day >= day

\* SQL: signal_date <= 'YYYY-MM-DD': a longer text with the same first ten
\* characters sorts after the bare date
TextLE(sd, day) == sd.day < day \/ (sd.day = day /\ sd.form = "date")

\* datetime.strptime(sig["signal_date"][:10], "%Y-%m-%d") returns a date
Parses(sd) == sd.form # "malformed"

\* ------------------------------------------------------- _compute_score
\* cutoff = as_of_date - timedelta(days=30)
Cutoff(as_of_date) == as_of_date - Window

\* faulty variant: the query without its thesis_id = ? condition
SelectSignalsAnyThesis(tbl, thesis_id, as_of_date) ==
  {s \in tbl : /\ TextGE(s.signal_date, Cutoff(as_of_date))
               /\ TextLE(s.signal_date, as_of_date)}

\* faulty variant: the query without its cutoff condition
SelectSignalsNoCutoff(tbl, thesis_id, as_of_date) ==
  {s \in tbl : s.thesis_id = thesis_id /\ TextLE(s.signal_date, as_of_date)}

\* SELECT ... FROM signals WHERE thesis_id = ? AND signal_date >= ? AND signal_date <= ?
SelectSignals(tbl, thesis_id, as_of_date) ==
  {s \in tbl : /\ s.thesis_id = thesis_id
               /\ TextGE(s.signal_date, Cutoff(as_of_date))
               /\ TextLE(s.signal_date, as_of_date)}

\* days_ago = max((ref_date - sig_date).days, 0)
DaysAgo(sig, as_of_date) == Max(as_of_date - sig.signal_date.day, 0)

\* faulty variant: weight = decay, the confidence left out
WeightNoConfidence(sig, as_of_date) == Decay(DaysAgo(sig, as_of_date))

\* weight = sig["confidence"] * decay
Weight(sig, as_of_date) == sig.confidence * Decay(DaysAgo(sig, as_of_date))

\* faulty variant: the comparison never matches, every signal counts as weakening
DirectionSignNeverSupporting(sig) == 0 - 1

\* direction_sign = 1.0 if sig["direction"] == "supporting" else -1.0
DirectionSign(sig) == IF sig.direction = "supporting" THEN 1 ELSE -1

RECURSIVE WeightedSum(_, _)
\* weighted_sum += sig["strength"] * weight * direction_sign
WeightedSum(sigs, as_of_date) ==
  IF sigs = {} THEN 0
  ELSE LET sig == CHOOSE x \in sigs : TRUE
       IN  sig.strength * Weight(sig, as_of_date) * DirectionSign(sig)
             + WeightedSum(sigs \ {sig}, as_of_date)

RECURSIVE WeightTotalNoDecay(_, _)
\* faulty variant: weight_total += sig["confidence"], the decay left out
WeightTotalNoDecay(sigs, as_of_date) ==
  IF sigs = {} THEN 0
  ELSE LET sig == CHOOSE x \in sigs : TRUE
       IN  sig.confidence * DecayScale + WeightTotalNoDecay(sigs \ {sig}, as_of_date)

RECURSIVE WeightTotal(_, _)
\* weight_total += weight
WeightTotal(sigs, as_of_date) ==
  IF sigs = {} THEN 0
  ELSE LET sig == CHOOSE x \in sigs : TRUE
       IN  Weight(sig, as_of_date) + WeightTotal(sigs \ {sig}, as_of_date)

\* faulty variant: a supporting signal is counted only when it carries weight
SupportingCountWeighted(sigs) ==
  Cardinality({s \in sigs : s.direction = "supporting" /\ s.confidence > 0})

\* if sig["direction"] == "supporting": supporting_count += 1
SupportingCount(sigs) == Cardinality({s \in sigs : s.direction = "supporting"})

\* else: weakening_count += 1
WeakeningCount(sigs) == Cardinality({s \in sigs : s.direction # "supporting"})

\* max(1.0, min(10.0, c))
Clamp(c) == Max(GaugeMin, Min(GaugeMax, c))

\* faulty variant: a zero weight total reported as the empty case, 5.0
CompositeNeutralOnZero(weighted_sum, weight_total) ==
  IF weight_total > 0
  THEN Clamp(GaugeMid + RoundDiv(GaugeSlope * weighted_sum, weight_total))
  ELSE NeutralScore

\* raw_score = weighted_sum / weight_total if weight_total > 0 else 0.0;
\* composite = 5.5 + raw_score * 4.5 / 10.0; then round(composite, 2), clamped
Composite(weighted_sum, weight_total) ==
  IF weight_total > 0
  THEN Clamp(GaugeMid + RoundDiv(GaugeSlope * weighted_sum, weight_total))
  ELSE Clamp(GaugeMid)

\* faulty variant: the empty case reported as 0.0 instead of the midpoint
EmptyResultZero ==
  [composite_score |-> 0, signal_count |-> 0,
   supporting_count |-> 0, weakening_count |-> 0]

\* the dict returned when no row is selected
EmptyResult ==
  [composite_score |-> NeutralScore, signal_count |-> 0,
   supporting_count |-> 0, weakening_count |-> 0]

\* the dict returned after the loop over the selected rows
LoopResult(sigs, as_of_date) ==
  [composite_score |->
     Composite(WeightedSum(sigs, as_of_date), WeightTotal(sigs, as_of_date)),
   signal_count |-> SupportingCount(sigs) + WeakeningCount(sigs),
   supporting_count |-> SupportingCount(sigs),
   weakening_count |-> WeakeningCount(sigs)]

\* _compute_score raises ValueError: strptime meets a selected row it cannot parse
Raises(tbl, thesis_id, as_of_date) ==
  \E s \in SelectSignals(tbl, thesis_id, as_of_date) : ~Parses(s.signal_date)

\* the value _compute_score returns when it does not raise
ComputeScore(tbl, thesis_id, as_of_date) ==
  LET sigs == SelectSignals(tbl, thesis_id, as_of_date)
  IN  IF sigs = {} THEN EmptyResult ELSE LoopResult(sigs, as_of_date)

\* ------------------------------------------------------------- the store
\* a row of daily_scores: its key and its four content columns
ScoreRow(thesis_id, score_date, result) ==
  [thesis_id |-> thesis_id, score_date |-> score_date,
   composite_score |-> result.composite_score,
   signal_count |-> result.signal_count,
   supporting_count |-> result.supporting_count,
   weakening_count |-> result.weakening_count]

\* the rows of tbl that conflict with (thesis_id, score_date)
Conflicts(tbl, thesis_id, score_date) ==
  {i \in 1..Len(tbl) : tbl[i].thesis_id = thesis_id /\ tbl[i].score_date = score_date}

\* faulty variant: a plain INSERT into a table without the UNIQUE constraint
UpsertAppend(tbl, row) == Append(tbl, row)

\* faulty variant: DO UPDATE SET signal_count = signal_count + excluded.signal_count
UpsertAccumulate(tbl, row) ==
  IF Conflicts(tbl, row.thesis_id, row.score_date) # {}
  THEN [i \in 1..Len(tbl) |->
          IF i \in Conflicts(tbl, row.thesis_id, row.score_date)
          THEN [row EXCEPT !.signal_count = tbl[i].signal_count + row.signal_count]
          ELSE tbl[i]]
  ELSE Append(tbl, row)

\* faulty variant: ON CONFLICT(thesis_id), the date left out of the conflict target
UpsertByThesis(tbl, row) ==
  IF \E i \in 1..Len(tbl) : tbl[i].thesis_id = row.thesis_id
  THEN [i \in 1..Len(tbl) |-> IF tbl[i].thesis_id = row.thesis_id THEN row ELSE tbl[i]]
  ELSE Append(tbl, row)

\* INSERT INTO daily_scores ... ON CONFLICT(thesis_id, score_date) DO UPDATE SET ...
Upsert(tbl, row) ==
  IF Conflicts(tbl, row.thesis_id, row.score_date) # {}
  THEN [i \in 1..Len(tbl) |->
          IF i \in Conflicts(tbl, row.thesis_id, row.score_date) THEN row ELSE tbl[i]]
  ELSE Append(tbl, row)

\* the rows stored under a key, as a set
RowsAt(tbl, thesis_id, score_date) ==
  {tbl[i] : i \in Conflicts(tbl, thesis_id, score_date)}

\* a signals row as the INSERT statements of the handlers write it
SignalRow(id, thesis_id, direction, strength, confidence, signal_date, is_manual) ==
  [id |-> id, thesis_id |-> thesis_id, direction |-> direction,
   strength |-> strength, confidence |-> confidence,
   signal_date |-> signal_date, is_manual |-> is_manual]

SignalDate(day, form) == [day |-> day, form |-> form]

\* ------------------------------------------------------ inputs of the run
\* ManualSignalCreate.strength: Field(ge=1, le=10); the values tried
Strengths == {10}
\* ManualSignalCreate.signal_date: any text, or None for today
ManualDates(today) ==
  { SignalDate(today, "date"), SignalDate(today - 1, "date"),
    SignalDate(today - 1, "malformed") }
\* ThesisSignalExtraction.confidence: Field(ge=0.0, le=1.0), in hundredths
Confidences == {50}
\* (article["published_at"] or "")[:10], or today
ArticleDates(today) == { SignalDate(today, "date") }

\* ---------------------------------------------------- compute_daily_scores
Idle == [pc |-> "idle", today |-> 0, idx |-> 0, read |-> {}, result |-> EmptyResult]

Ids(sigs) == {s.id : s \in sigs}

Key(thesis_id, score_date) == <<thesis_id, score_date>>

\* the keys a run has upserted so far and no commit has made durable yet
Uncommitted(r) ==
  {Key(ThesisOrder[i], run[r].today) : i \in 1..(run[r].idx - 1)}
    \cap {k \in Theses \X (0..MaxDay) : RowsAt(scores, k[1], k[2]) # RowsAt(durable, k[1], k[2])}

\* db.commit(): whatever the connection has pending becomes durable
Commit ==
  /\ durable' = scores
  /\ orphaned' = {}

\* SELECT id FROM theses; today = datetime.utcnow().strftime("%Y-%m-%d")
StartRun(r) ==
  /\ run[r].pc = "idle"
  /\ run' = [run EXCEPT ![r] = [Idle EXCEPT !.pc = "score", !.today = now, !.idx = 1]]
  /\ UNCHANGED <<now, signals, nextId, scores, durable, basis, orphaned, ret>>
  /\ UNCHANGED <<normVars, feedVars, genVars, trendVars>>

\* a run that starts while no other run is under way
SerialStart(r) ==
  /\ \A q \in Runners : run[q].pc = "idle"
  /\ StartRun(r)

\* result = await self._compute_score(thesis["id"], today), returning
ScoreThesis(r) ==
  LET t == ThesisOrder[run[r].idx] IN
  /\ run[r].pc = "score"
  /\ ~Raises(signals, t, run[r].today)
  /\ run' = [run EXCEPT ![r].pc = "upsert",
                        ![r].read = Ids(SelectSignals(signals, t, run[r].today)),
                        ![r].result = ComputeScore(signals, t, run[r].today)]
  /\ UNCHANGED <<now, signals, nextId, scores, durable, basis, orphaned, ret>>
  /\ UNCHANGED <<normVars, feedVars, genVars, trendVars>>

\* _compute_score raises: the exception leaves compute_daily_scores before its
\* commit; run_aggregation logs it (get_dashboard answers 500); nothing is rolled back
FailScore(r) ==
  LET t == ThesisOrder[run[r].idx] IN
  /\ run[r].pc = "score"
  /\ Raises(signals, t, run[r].today)
  /\ orphaned' = orphaned \cup Uncommitted(r)
  /\ run' = [run EXCEPT ![r] = Idle]
  /\ UNCHANGED <<now, signals, nextId, scores, durable, basis, ret>>
  /\ UNCHANGED <<normVars, feedVars, genVars, trendVars>>

\* await self.db.execute(INSERT INTO daily_scores ... ON CONFLICT ... DO UPDATE ...)
UpsertScore(r) ==
  LET t == ThesisOrder[run[r].idx] IN
  /\ run[r].pc = "upsert"
  /\ scores' = Upsert(scores, ScoreRow(t, run[r].today, run[r].result))
  /\ basis' = [basis EXCEPT ![Key(t, run[r].today)] = run[r].read]
  /\ orphaned' = orphaned \ {Key(t, run[r].today)}
  /\ run' = [run EXCEPT ![r].pc = IF run[r].idx < Len(ThesisOrder) THEN "score" ELSE "commit",
                        ![r].idx = run[r].idx + 1,
                        ![r].read = {},
                        ![r].result = EmptyResult]
  /\ UNCHANGED <<now, signals, nextId, durable, ret>>
  /\ UNCHANGED <<normVars, feedVars, genVars, trendVars>>

\* await self.db.commit() at the end of compute_daily_scores
CommitRun(r) ==
  /\ run[r].pc = "commit"
  /\ Commit
  /\ run' = [run EXCEPT ![r] = Idle]
  /\ UNCHANGED <<now, signals, nextId, scores, basis, ret>>
  /\ UNCHANGED <<normVars, feedVars, genVars, trendVars>>

\* ------------------------------------------------------- signal handlers
\* POST /signals/manual: INSERT with confidence 1.0 and is_manual 1, then commit
CreateManualSignal(thesis_id, direction, strength, signal_date) ==
  /\ nextId <= MaxSignals
  /\ signals' = signals \cup
       {SignalRow(nextId, thesis_id, direction, strength, ManualConfidence, signal_date, 1)}
  /\ nextId' = nextId + 1
  /\ Commit
  /\ UNCHANGED <<now, scores, run, basis, ret>>
  /\ UNCHANGED <<normVars, feedVars, genVars, trendVars>>

\* analyze_pending, one article: INSERT with is_manual 0, then commit
StoreSignal(thesis_id, direction, strength, confidence, signal_date) ==
  /\ nextId <= MaxSignals
  /\ signals' = signals \cup
       {SignalRow(nextId, thesis_id, direction, strength, confidence, signal_date, 0)}
  /\ nextId' = nextId + 1
  /\ Commit
  /\ UNCHANGED <<now, scores, run, basis, ret>>
  /\ UNCHANGED <<normVars, feedVars, genVars, trendVars>>

\* DELETE /signals/{signal_id}: DELETE FROM signals WHERE id = ?, then commit
DeleteSignal(signal_id) ==
  /\ signals' = {s \in signals : s.id # signal_id}
  /\ Commit
  /\ UNCHANGED <<now, nextId, scores, run, basis, ret>>
  /\ UNCHANGED <<normVars, feedVars, genVars, trendVars>>

\* midnight (UTC) passes
Tick ==
  /\ now < MaxDay
  /\ now' = now + 1
  /\ UNCHANGED <<signals, nextId, scores, durable, run, basis, orphaned, ret>>
  /\ UNCHANGED <<normVars, feedVars, genVars, trendVars>>

\* ------------------------------------------------------- specification
NoBasis == {0}
NoRet == [called |-> FALSE, raised |-> FALSE, thesis_id |-> "", result |-> EmptyResult]
NoStats == [generated |-> 0, skipped_no_data |-> 0, skipped_duplicate |-> 0, errors |-> 0]

\* no normalizer called, no feed requested, no data series configured, no
\* score series classified
NoText == text = <<>> /\ other = <<>>
NoFeed == sig_rows = <<>> /\ recent_signals = <<>>
NoSeries == data_series = {} /\ data_points = {} /\ stats = NoStats
NoTrend == trend_data = <<>>

Init ==
  /\ now = 0
  /\ signals = {}
  /\ nextId = 1
  /\ scores = <<>>
  /\ durable = <<>>
  /\ run = [r \in Runners |-> Idle]
  /\ basis = [k \in Theses \X (0..MaxDay) |-> NoBasis]
  /\ orphaned = {}
  /\ ret = NoRet
  /\ NoText /\ NoFeed /\ NoSeries /\ NoTrend

Next ==
  \/ \E r \in Runners : SerialStart(r)
  \/ \E r \in Runners : ScoreThesis(r)
  \/ \E r \in Runners : FailScore(r)
  \/ \E r \in Runners : UpsertScore(r)
  \/ \E r \in Runners : CommitRun(r)
  \/ \E t \in Theses, d \in Directions, s \in Strengths, sd \in ManualDates(now) :
       CreateManualSignal(t, d, s, sd)
  \/ \E t \in Theses, d \in Directions, s \in Strengths, c \in Confidences,
        sd \in ArticleDates(now) : StoreSignal(t, d, s, c, sd)
  \/ \E id \in 1..MaxSignals : DeleteSignal(id)
  \/ Tick

Spec == Init /\ [][Next]_vars

\* ------------------------------------------------- runs that overlap
\* The recompute of get_dashboard and run_aggregation of the scheduler are
\* coroutines on one event loop and one connection; nothing keeps one from
\* starting while the other is suspended at an await.  Signals are inserted
\* meanwhile; the clock stands still.
OverlapNext ==
  \/ \E r \in Runners : StartRun(r)
  \/ \E r \in Runners : ScoreThesis(r)
  \/ \E r \in Runners : FailScore(r)
  \/ \E r \in Runners : UpsertScore(r)
  \/ \E r \in Runners : CommitRun(r)
  \/ \E t \in Theses, d \in Directions, s \in Strengths, sd \in ManualDates(now) :
       CreateManualSignal(t, d, s, sd)
  \/ \E t \in Theses, d \in Directions, s \in Strengths, c \in Confidences,
        sd \in ArticleDates(now) : StoreSignal(t, d, s, c, sd)

OverlapSpec == Init /\ [][OverlapNext]_vars

\* --------------------------------------- _compute_score called directly
\* the signal values a direct call is tried on; as_of_date is day 0
ScoreStrengths == {1, 10}
ScoreConfidences == {0, 50, 100}
ScoreDates ==
  { SignalDate(0 - (Window + 1), "date"), SignalDate(0 - Window, "date"),
    SignalDate(0, "date"), SignalDate(1, "date"),
    SignalDate(0, "datetime"), SignalDate(0 - 1, "malformed") }
ScoreInputs ==
  { SignalRow(0, ThesisOrder[1], d, s, c, sd, 0) :
      d \in Directions, s \in ScoreStrengths, c \in ScoreConfidences, sd \in ScoreDates }
  \cup { SignalRow(0, ThesisOrder[2], d, 10, 10, SignalDate(0, "date"), 0) : d \in Directions }

\* the table holding the rows f[1], f[2], ... under the ids 1, 2, ...
TableOf(f) == {[f[i] EXCEPT !.id = i] : i \in DOMAIN f}

\* every table of up to max rows
ScoreTables(max) ==
  {TableOf(f) : f \in UNION {[1..n -> ScoreInputs] : n \in 0..max}}

\* await self._compute_score(thesis_id, today)
ScoreCall(thesis_id) ==
  /\ ret' = [called |-> TRUE,
             raised |-> Raises(signals, thesis_id, now),
             thesis_id |-> thesis_id,
             result |-> IF Raises(signals, thesis_id, now) THEN EmptyResult
                        ELSE ComputeScore(signals, thesis_id, now)]
  /\ UNCHANGED <<now, signals, nextId, scores, durable, run, basis, orphaned>>
  /\ UNCHANGED <<normVars, feedVars, genVars, trendVars>>

ScoreInit ==
  /\ now = 0
  /\ signals \in ScoreTables(MaxRows)
  /\ nextId = MaxRows + 1
  /\ scores = <<>>
  /\ durable = <<>>
  /\ run = [r \in Runners |-> Idle]
  /\ basis = [k \in Theses \X (0..MaxDay) |-> NoBasis]
  /\ orphaned = {}
  /\ ret = NoRet
  /\ NoText /\ NoFeed /\ NoSeries /\ NoTrend

ScoreNext == \E t \in Theses : ScoreCall(t)

ScoreSpec == ScoreInit /\ [][ScoreNext]_vars

\* ------------------------- _compute_score on two opposite signals
\* ManualSignalCreate.strength: Field(ge=1, le=10)
PairStrengths == 1..10
\* confidences a hundredth apart, far apart and equal
PairConfidences == {1, 45, 46, 50, 100}
\* the ages in days: today, yesterday and the two oldest days of the window
PairAges == {0, 1, Window - 1, Window}

\* one supporting and one weakening signal of a thesis, of equal strength
PairInit ==
  /\ now = 0
  /\ \E s \in PairStrengths, c1, c2 \in PairConfidences, a1, a2 \in PairAges :
       signals = { SignalRow(1, ThesisOrder[1], "supporting", s, c1, SignalDate(0 - a1, "date"), 0),
                   SignalRow(2, ThesisOrder[1], "weakening", s, c2, SignalDate(0 - a2, "date"), 0) }
  /\ nextId = 3
  /\ scores = <<>>
  /\ durable = <<>>
  /\ run = [r \in Runners |-> Idle]
  /\ basis = [k \in Theses \X (0..MaxDay) |-> NoBasis]
  /\ orphaned = {}
  /\ ret = NoRet
  /\ NoText /\ NoFeed /\ NoSeries /\ NoTrend

PairNext == \E t \in Theses : ScoreCall(t)

PairSpec == PairInit /\ [][PairNext]_vars

\* ------------------------------------------- _normalize_quote, _normalize_title
\* A text is the sequence of its characters.  The en dash and the em dash stand
\* in the same character class as "-" in every pattern below and are written "-";
\* a text holds no newline.
LowerLetters ==
  << "a", "b", "c", "d", "e", "f", "g", "h", "i", "j", "k", "l", "m",
     "n", "o", "p", "q", "r", "s", "t", "u", "v", "w", "x", "y", "z" >>
UpperLetters ==
  << "A", "B", "C", "D", "E", "F", "G", "H", "I", "J", "K", "L", "M",
     "N", "O", "P", "Q", "R", "S", "T", "U", "V", "W", "X", "Y", "Z" >>
Lowercase == {LowerLetters[i] : i \in 1..26}
Uppercase == {UpperLetters[i] : i \in 1..26}
Letters == Lowercase \cup Uppercase
Digits == {"0", "1", "2", "3", "4", "5", "6", "7", "8", "9"}
\* \s
Whitespace == {" ", "\t"}
\* [\-–—|]
Separators == {"-", "|"}
\* [A-Za-z0-9 .,'&]
NameChars == Letters \cup Digits \cup {" ", ".", ",", "'", "&"}

\* str.lower()
ToLower(c) ==
  IF c \in Uppercase THEN LowerLetters[CHOOSE i \in 1..26 : UpperLetters[i] = c] ELSE c

Lower(s) == [i \in 1..Len(s) |-> ToLower(s[i])]

\* re.sub(r"[^a-z0-9\s]", " ", q) with every character kept, none set to " "
BlankNothing(s) == s

\* re.sub(r"[^a-z0-9\s]", " ", q)
Blank(s) ==
  [i \in 1..Len(s) |-> IF s[i] \in Lowercase \cup Digits \cup Whitespace THEN s[i] ELSE " "]

RECURSIVE LStrip(_)
LStrip(s) ==
  IF s # <<>> /\ Head(s) \in Whitespace THEN LStrip(Tail(s)) ELSE s

RECURSIVE RStrip(_)
RStrip(s) ==
  IF s # <<>> /\ s[Len(s)] \in Whitespace THEN RStrip(SubSeq(s, 1, Len(s) - 1)) ELSE s

\* re.sub(r"\s+", " ", q)
RECURSIVE Collapse(_)
Collapse(s) ==
  IF s = <<>> THEN <<>>
  ELSE IF Head(s) \in Whitespace THEN <<" ">> \o Collapse(LStrip(s))
  ELSE <<Head(s)>> \o Collapse(Tail(s))

\* .strip()
Strip(s) == RStrip(LStrip(s))

NormalizeQuote(quote) ==
  IF quote = <<>> THEN <<>> ELSE Strip(Collapse(Blank(Lower(quote))))

\* the place of the last separator of s, 0 when it has none
LastSeparator(s) ==
  LET I == {i \in 1..Len(s) : s[i] \in Separators}
  IN IF I = {} THEN 0 ELSE CHOOSE i \in I : \A j \in I : j <= i

\* \s*[A-Za-z][A-Za-z0-9 .,'&]+$ matches the whole of tail
IsSourceName(tail) ==
  LET t == LStrip(tail)
  IN /\ Len(t) >= 2
     /\ t[1] \in Letters
     /\ \A j \in 2..Len(t) : t[j] \in NameChars

\* re.sub(r"\s*[\-–—|]\s*[A-Za-z][A-Za-z0-9 .,'&]+$", "", title): the name class
\* holds no separator, so only the last separator can open the match, and the
\* leftmost match takes the whitespace before it
StripAttribution(title) ==
  LET i == LastSeparator(title)
  IN IF i > 0 /\ IsSourceName(SubSeq(title, i + 1, Len(title)))
     THEN RStrip(SubSeq(title, 1, i - 1))
     ELSE title

NormalizeTitle(title) ==
  IF title = <<>> THEN <<>> ELSE Strip(Collapse(Blank(Lower(StripAttribution(title)))))

\* ------------------------------------------------ get_dashboard: the feed
\* a row of signals as the feed query reads it: created_at in hours, source_url
\* a token ("" for NULL or empty), the two texts character by character
FeedRow(id, thesis_id, strength, confidence, source_url, source_title, evidence_quote, created_at) ==
  [id |-> id, thesis_id |-> thesis_id, strength |-> strength, confidence |-> confidence,
   source_url |-> source_url, source_title |-> source_title,
   evidence_quote |-> evidence_quote, created_at |-> created_at]

\* datetime.utcnow() - timedelta(hours=24), the request made at midnight of day today
Cutoff24h(today) == today * DayHours - FeedHours

\* WHERE thesis_id = ? AND created_at >= ?
FeedMatches(sigs, tid, today) ==
  {r \in sigs : r.thesis_id = tid /\ r.created_at >= Cutoff24h(today)}

\* ORDER BY strength DESC, confidence DESC puts a before b
Before(a, b) ==
  \/ a.strength > b.strength
  \/ a.strength = b.strength /\ a.confidence > b.confidence

\* every order the ORDER BY allows: rows it ties may come in any order
RECURSIVE OrdersOf(_, _)
OrdersOf(row, ids) ==
  IF ids = {} THEN {<<>>}
  ELSE UNION { {<<row[i]>> \o o : o \in OrdersOf(row, ids \ {i})} :
               i \in {x \in ids : \A y \in ids : ~Before(row[y], row[x])} }

Orders(rows) ==
  OrdersOf([i \in Ids(rows) |-> CHOOSE r \in rows : r.id = i], Ids(rows))

\* LIMIT 50
Limit(rows, n) == SubSeq(rows, 1, Min(Len(rows), n))

\* url, norm_title, norm_quote of a row
Keys(r) ==
  [url |-> r.source_url,
   title |-> NormalizeTitle(r.source_title),
   quote |-> NormalizeQuote(r.evidence_quote)]

NoneSeen == [urls |-> {}, titles |-> {}, quotes |-> {}]

\* the three tests of the loop with the quote test left out
IsDuplicateNoQuote(seen, k) ==
  \/ k.url # "" /\ k.url \in seen.urls
  \/ k.title # <<>> /\ k.title \in seen.titles

\* if url and url in seen_urls / norm_title ... / norm_quote ...: continue
IsDuplicate(seen, k) ==
  \/ k.url # "" /\ k.url \in seen.urls
  \/ k.title # <<>> /\ k.title \in seen.titles
  \/ k.quote # <<>> /\ k.quote \in seen.quotes

\* the keys recorded for every candidate, the skipped ones too
SeenAfterAlways(seen, k, duplicate) ==
  [urls |-> seen.urls \cup (IF k.url # "" THEN {k.url} ELSE {}),
   titles |-> seen.titles \cup (IF k.title # <<>> THEN {k.title} ELSE {}),
   quotes |-> seen.quotes \cup (IF k.quote # <<>> THEN {k.quote} ELSE {})]

\* the seen sets after a candidate: continue skips the three adds
SeenAfter(seen, k, duplicate) ==
  IF duplicate THEN seen
  ELSE [urls |-> seen.urls \cup (IF k.url # "" THEN {k.url} ELSE {}),
        titles |-> seen.titles \cup (IF k.title # <<>> THEN {k.title} ELSE {}),
        quotes |-> seen.quotes \cup (IF k.quote # <<>> THEN {k.quote} ELSE {})]

\* the break test taken one candidate late
FeedFullLate(accepted) == Len(accepted) > FeedLimit

\* if len(recent_signals) >= 10: break
FeedFull(accepted) == Len(accepted) >= FeedLimit

\* for r in sig_rows: ... recent_signals.append(...)
RECURSIVE DedupLoop(_, _, _)
DedupLoop(rows, seen, accepted) ==
  IF rows = <<>> \/ FeedFull(accepted) THEN accepted
  ELSE LET k == Keys(Head(rows))
           duplicate == IsDuplicate(seen, k)
       IN DedupLoop(Tail(rows), SeenAfter(seen, k, duplicate),
                    IF duplicate THEN accepted ELSE Append(accepted, Head(rows)))

Dedupe(rows) == DedupLoop(rows, NoneSeen, <<>>)

\* the rows the feed is tried on
TitleCNBC == <<"A", "b", " ", "-", " ", "C", "d">>
TitleBloomberg == <<"A", "b", " ", "|", " ", "E", "f">>
TitleCutting == <<"A", "b", " ", "c", "-", "d">>
TitleSaving == <<"A", "b", " ", "c", "-", "e">>
QuoteHyphen == <<"a", "-", "b">>
QuoteSpace == <<"a", " ", "b">>
QuoteDots == <<".", ".", ".">>

\* manual signals without source and with an empty quote, of strength 10, 9, ...
Fillers(k) ==
  {FeedRow(i, ThesisOrder[1], FeedLimit + 1 - i, ManualConfidence, "", <<>>, <<>>, 0) :
     i \in 1..k}

FeedInputs ==
  LET t == ThesisOrder[1] IN
  { FeedRow(0, t, 7, 100, "u1", TitleCNBC, QuoteHyphen, 0),
    FeedRow(0, t, 7, 80, "u2", TitleBloomberg, <<>>, 0),
    FeedRow(0, t, 3, 100, "u1", TitleCutting, QuoteDots, 0),
    FeedRow(0, t, 7, 100, "", <<>>, QuoteSpace, 0),
    FeedRow(0, t, 3, 80, "u2", TitleSaving, QuoteSpace, 0),
    FeedRow(0, t, 7, 80, "", TitleSaving, <<>>, 0),
    FeedRow(0, ThesisOrder[2], 7, 100, "u1", <<>>, <<>>, 0),
    FeedRow(0, t, 7, 100, "u1", <<>>, <<>>, 0 - (FeedHours + 1)) }

\* k fillers under the ids 1..k, then the rows f[1], f[2], ... under the next ids
FeedTable(k, f) == Fillers(k) \cup {[f[i] EXCEPT !.id = k + i] : i \in DOMAIN f}

\* no filler, or as many as leave two places, one place or none in the feed
FillerCounts == {0, FeedLimit - 2, FeedLimit - 1, FeedLimit}

FeedTables ==
  {FeedTable(k, f) : k \in FillerCounts,
                     f \in UNION {[1..n -> FeedInputs] : n \in 0..MaxCands}}

\* get_dashboard, the recent signals of one thesis of its loop
FeedCall(tid) ==
  /\ ~ret.called
  /\ \E order \in Orders(FeedMatches(signals, tid, now)) :
       /\ sig_rows' = Limit(order, QueryLimit)
       /\ recent_signals' = Dedupe(Limit(order, QueryLimit))
  /\ ret' = [NoRet EXCEPT !.called = TRUE, !.thesis_id = tid]
  /\ UNCHANGED <<now, signals, nextId, scores, durable, run, basis, orphaned>>
  /\ UNCHANGED <<normVars, genVars, trendVars>>

FeedInit ==
  /\ now = 0
  /\ signals \in FeedTables
  /\ nextId = FeedLimit + MaxCands + 1
  /\ scores = <<>>
  /\ durable = <<>>
  /\ run = [r \in Runners |-> Idle]
  /\ basis = [k \in Theses \X (0..MaxDay) |-> NoBasis]
  /\ orphaned = {}
  /\ ret = NoRet
  /\ NoText /\ NoFeed /\ NoSeries /\ NoTrend

FeedNext == \E t \in Theses : FeedCall(t)

FeedSpec == FeedInit /\ [][FeedNext]_vars

\* -------------------------------- the feed of a thesis with many signals
\* the articles that gave one signal each
SingleUrls == <<"d1", "d2", "d3", "d4", "d5", "d6", "d7", "d8", "d9", "d10", "d11">>

\* k signals of strength 10 drawn from one article (one source_url), under the
\* ids 1..k, their confidences 1.0, 0.99, ... apart
Syndicated(k) ==
  {FeedRow(i, ThesisOrder[1], 10, ManualConfidence + 1 - i, "u1", <<>>, <<>>, 0) : i \in 1..k}

\* m signals of strength 9, each of its own article, under the next ids
Singles(k, m) ==
  {FeedRow(k + i, ThesisOrder[1], 9, ManualConfidence + 1 - i, SingleUrls[i], <<>>, <<>>, 0) :
     i \in 1..m}

\* most signals of the one article: two more than the query returns
MaxSyndicated == 52

CrowdInit ==
  /\ now = 0
  /\ \E k \in 0..MaxSyndicated, m \in 0..Len(SingleUrls) :
       /\ signals = Syndicated(k) \cup Singles(k, m)
       /\ nextId = k + m + 1
  /\ scores = <<>>
  /\ durable = <<>>
  /\ run = [r \in Runners |-> Idle]
  /\ basis = [k \in Theses \X (0..MaxDay) |-> NoBasis]
  /\ orphaned = {}
  /\ ret = NoRet
  /\ NoText /\ NoFeed /\ NoSeries /\ NoTrend

CrowdNext == \E t \in Theses : FeedCall(t)

CrowdSpec == CrowdInit /\ [][CrowdNext]_vars

\* -------------------------------------- the normalizers called directly
\* the characters the texts are made of: a lower and an upper letter, a digit, a
\* space, the two separators, a punctuation mark of the source-name class and one
\* outside it
Alphabet == {"a", "B", "1", " ", "-", "|", ".", "!"}

Texts == UNION {[1..n -> Alphabet] : n \in 0..MaxLen}

\* texts of the documentation and of the kind the feeds deliver
Examples ==
  { <<"F", "o", "o", " ", "B", "a", "r", " ", "-", " ", "C", "N", "B", "C">>,
    <<"F", "o", "o", " ", "B", "a", "r", " ", "|", " ", "B", "l", "o", "o", "m", "b", "e", "r", "g">>,
    <<"A", "I", " ", "c", "o", "s", "t", "-", "c", "u", "t", "t", "i", "n", "g">>,
    <<"A", "I", " ", "c", "o", "s", "t", "-", "s", "a", "v", "i", "n", "g">>,
    <<"c", "a", "s", "h", "-", "f", "l", "o", "w">>,
    <<"c", "a", "s", "h", " ", "f", "l", "o", "w">>,
    <<"U", ".", "S", ".", " ", "j", "o", "b", "s">>,
    <<"C", "a", "s", "h", " ", "f", "l", "o", "w", "!">> }

\* the letter in the other case
ToggleCase(c) ==
  IF c \in Uppercase THEN ToLower(c)
  ELSE IF c \in Lowercase THEN UpperLetters[CHOOSE i \in 1..26 : LowerLetters[i] = c]
  ELSE c

Without(t, i) == SubSeq(t, 1, i - 1) \o SubSeq(t, i + 1, Len(t))

\* the texts one character away from t: one replaced, its case changed, or dropped
Variants(t) ==
  {[t EXCEPT ![i] = c] : i \in DOMAIN t, c \in Alphabet}
    \cup {[t EXCEPT ![i] = ToggleCase(t[i])] : i \in DOMAIN t}
    \cup {Without(t, i) : i \in DOMAIN t}

\* _normalize_quote and _normalize_title of text, of a second text and of the
\* key just returned
NormCall(second) ==
  /\ ~ret.called
  /\ other' = second
  /\ ret' = [called |-> TRUE,
             quote |-> NormalizeQuote(text),
             title |-> NormalizeTitle(text),
             other_quote |-> NormalizeQuote(second),
             other_title |-> NormalizeTitle(second),
             quote_again |-> NormalizeQuote(NormalizeQuote(text))]
  /\ UNCHANGED <<now, signals, nextId, scores, durable, run, basis, orphaned>>
  /\ UNCHANGED <<text, feedVars, genVars, trendVars>>

NormInit ==
  /\ now = 0
  /\ signals = {}
  /\ nextId = 1
  /\ scores = <<>>
  /\ durable = <<>>
  /\ run = [r \in Runners |-> Idle]
  /\ basis = [k \in Theses \X (0..MaxDay) |-> NoBasis]
  /\ orphaned = {}
  /\ ret = NoRet
  /\ text \in Texts \cup Examples
  /\ other = <<>>
  /\ NoFeed /\ NoSeries /\ NoTrend

NormNext == \E second \in Variants(text) \cup Examples : NormCall(second)

NormSpec == NormInit /\ [][NormNext]_vars

\* ------------------------------------------------------ data_signals.py
\* Observation values are integers here; pct_change is the fraction num / den
\* (den > 0), so that it is compared with the thresholds without rounding.
\* SEED_DATA_SERIES, the two series the generator is tried on, one of each thesis
SeriesOrder == <<"fred_jolts", "fred_cpi_it">>
SeriesIds == {SeriesOrder[i] : i \in 1..Len(SeriesOrder)}
DirectionLogics == {"higher_supporting", "lower_supporting"}

DataSeries(id, thesis_id, direction_logic, enabled) ==
  [id |-> id, thesis_id |-> thesis_id, direction_logic |-> direction_logic,
   enabled |-> enabled]

DataPoint(id, series_id, date, value) ==
  [id |-> id, series_id |-> series_id, date |-> date, value |-> value]

Abs(x) == IF x < 0 THEN 0 - x ELSE x

\* pct_change with the test for a zero previous value left out: 100 percent
PctChangeNoZeroTest(prev_val, latest_val) ==
  IF prev_val = 0 THEN [num |-> 100, den |-> 1]
  ELSE [num |-> (latest_val - prev_val) * 100, den |-> Abs(prev_val)]

\* pct_change = 0.0 if prev_val == 0 else (latest_val - prev_val) / abs(prev_val) * 100
PctChange(prev_val, latest_val) ==
  IF prev_val = 0 THEN [num |-> 0, den |-> 1]
  ELSE [num |-> (latest_val - prev_val) * 100, den |-> Abs(prev_val)]

\* abs_pct < k
AbsPctBelow(pct, k) == Abs(pct.num) < k * pct.den

\* the buckets closed on the right: abs_pct <= 10 gives 7
PctToStrengthInclusive(pct) ==
  IF Abs(pct.num) <= 1 * pct.den THEN 3
  ELSE IF Abs(pct.num) <= 3 * pct.den THEN 5
  ELSE IF Abs(pct.num) <= 5 * pct.den THEN 6
  ELSE IF Abs(pct.num) <= 10 * pct.den THEN 7
  ELSE IF Abs(pct.num) <= 20 * pct.den THEN 8
  ELSE 9

\* _pct_to_strength
PctToStrength(pct) ==
  IF AbsPctBelow(pct, 1) THEN 3
  ELSE IF AbsPctBelow(pct, 3) THEN 5
  ELSE IF AbsPctBelow(pct, 5) THEN 6
  ELSE IF AbsPctBelow(pct, 10) THEN 7
  ELSE IF AbsPctBelow(pct, 20) THEN 8
  ELSE 9

\* value_increased = latest_val > prev_val
ValueIncreased(prev_val, latest_val) == latest_val > prev_val

\* the direction with an unchanged value taken for an increase
DirectionOfUnchangedUp(direction_logic, prev_val, latest_val) ==
  IF direction_logic = "higher_supporting"
  THEN IF latest_val >= prev_val THEN "supporting" ELSE "weakening"
  ELSE IF ~(latest_val >= prev_val) THEN "supporting" ELSE "weakening"

\* if direction_logic == "higher_supporting": ... else: ...
DirectionOf(direction_logic, prev_val, latest_val) ==
  IF direction_logic = "higher_supporting"
  THEN IF ValueIncreased(prev_val, latest_val) THEN "supporting" ELSE "weakening"
  ELSE IF ~ValueIncreased(prev_val, latest_val) THEN "supporting" ELSE "weakening"

\* every series, the disabled ones too
SeriesListAll(series) ==
  SelectSeq(SeriesOrder, LAMBDA id : \E d \in series : d.id = id)

\* SELECT ... FROM data_series ds JOIN theses t ... WHERE ds.enabled = 1
SeriesList(series) ==
  SelectSeq(SeriesOrder,
            LAMBDA id : \E d \in series : d.id = id /\ d.enabled = 1 /\ d.thesis_id \in Theses)

PointsOf(points, series_id) == {p \in points : p.series_id = series_id}

\* faulty variant: the row inserted last, whatever its date
LatestById(P) == CHOOSE p \in P : \A q \in P : q.id <= p.id

\* ORDER BY date DESC: the first row of P
LatestOf(P) == CHOOSE p \in P : \A q \in P : q.date <= p.date

\* the row of signals has this data_point_id (NULL in a signal that is not data)
HasPoint(s, point_id) == "data_point_id" \in DOMAIN s /\ s.data_point_id = point_id

\* what _generate_for_series returns, the test for an existing signal left out
CreatedNoGuard(sigs, points, series_id) ==
  IF Cardinality(PointsOf(points, series_id)) < 2 THEN "None" ELSE "True"

\* what _generate_for_series returns: None, False or True
Created(sigs, points, series_id) ==
  LET P == PointsOf(points, series_id)
  IN IF Cardinality(P) < 2 THEN "None"
     ELSE IF \E s \in sigs : HasPoint(s, LatestOf(P).id) THEN "False"
     ELSE "True"

\* INSERT INTO signals (...) VALUES (NULL, ?, ?, ?, ?, ?, ?, ?, NULL, ?, 0, 'data', ?)
DataSignal(id, d, points) ==
  LET P == PointsOf(points, d.id)
      latest == LatestOf(P)
      previous == LatestOf(P \ {latest})
  IN [id |-> id, thesis_id |-> d.thesis_id,
      direction |-> DirectionOf(d.direction_logic, previous.value, latest.value),
      strength |-> PctToStrength(PctChange(previous.value, latest.value)),
      confidence |-> DataConfidence,
      signal_date |-> SignalDate(latest.date, "date"),
      is_manual |-> 0, signal_type |-> "data", data_point_id |-> latest.id,
      source_title |-> d.id, source_url |-> ""]

\* stats[key] += 1
Count(st, key) == [st EXCEPT ![key] = @ + 1]

\* for series in series_list: try: ... except Exception: stats["errors"] += 1
\* (raising holds the series whose processing raises before it has inserted)
RECURSIVE GenerateLoop(_, _, _, _, _, _)
GenerateLoop(list, series, points, raising, acc, n) ==
  IF n > Len(list) THEN acc
  ELSE LET id == list[n]
           d == CHOOSE x \in series : x.id = id
           created == IF id \in raising THEN "raised" ELSE Created(acc.signals, points, id)
           next ==
             [signals |-> IF created = "True"
                          THEN acc.signals \cup {DataSignal(acc.nextId, d, points)}
                          ELSE acc.signals,
              nextId |-> IF created = "True" THEN acc.nextId + 1 ELSE acc.nextId,
              stats |-> Count(acc.stats,
                              CASE created = "None" -> "skipped_no_data"
                                [] created = "True" -> "generated"
                                [] created = "False" -> "skipped_duplicate"
                                [] created = "raised" -> "errors"),
              created |-> [acc.created EXCEPT ![id] = created]]
       IN GenerateLoop(list, series, points, raising, next, n + 1)

\* generate_all: the loop over the enabled series, then db.commit()
GenerateAll(raising) ==
  /\ nextId <= MaxDataSignals
  /\ LET out == GenerateLoop(SeriesList(data_series), data_series, data_points, raising,
                             [signals |-> signals, nextId |-> nextId, stats |-> NoStats,
                              created |-> [id \in SeriesIds |-> "unprocessed"]], 1)
     IN /\ signals' = out.signals
        /\ nextId' = out.nextId
        /\ stats' = out.stats
        /\ ret' = [called |-> TRUE, created |-> out.created]
  /\ Commit
  /\ UNCHANGED <<now, scores, run, basis, data_series, data_points>>
  /\ UNCHANGED <<normVars, feedVars, trendVars>>

\* fetch of a series, one observation: INSERT OR IGNORE INTO data_points, commit
FetchObservation(series_id, date, value) ==
  /\ Cardinality(data_points) < MaxPoints
  /\ data_points' =
       IF \E p \in data_points : p.series_id = series_id /\ p.date = date
       THEN data_points
       ELSE data_points \cup
              {DataPoint(Cardinality(data_points) + 1, series_id, date, value)}
  /\ Commit
  /\ UNCHANGED <<now, signals, nextId, scores, run, basis, ret, data_series, stats>>
  /\ UNCHANGED <<normVars, feedVars, trendVars>>

\* the dates and values of the observations tried
PointDates == 0..(MaxDay + 1)
PointValues == {100}

\* the two series, each enabled or not
SeriesTables ==
  { { DataSeries(SeriesOrder[1], ThesisOrder[1], "lower_supporting", e1),
      DataSeries(SeriesOrder[2], ThesisOrder[2], "lower_supporting", e2) } :
    e1 \in {0, 1}, e2 \in {0, 1} }

GenInit ==
  /\ now = 0
  /\ signals = {}
  /\ nextId = 1
  /\ scores = <<>>
  /\ durable = <<>>
  /\ run = [r \in Runners |-> Idle]
  /\ basis = [k \in Theses \X (0..MaxDay) |-> NoBasis]
  /\ orphaned = {}
  /\ ret = NoRet
  /\ NoText /\ NoFeed /\ NoTrend
  /\ data_series \in SeriesTables
  /\ data_points = {}
  /\ stats = NoStats

GenNext ==
  \/ \E raising \in SUBSET SeriesIds : GenerateAll(raising)
  \/ \E id \in SeriesIds, date \in PointDates, value \in PointValues :
       FetchObservation(id, date, value)
  \/ \E s \in signals : DeleteSignal(s.id)

GenSpec == GenInit /\ [][GenNext]_vars

\* ------------------------- the generator on one series of two observations
\* the previous and the latest value of the pairs tried: changes of 0, 0.5, 1,
\* 3, 5, 10, 20 percent and between, up and down, of a positive, a negative and
\* a zero previous value
PreviousValues == {0, 100, 0 - 100, 1000}
LatestValues ==
  {0 - 110, 0 - 90, 0, 5, 70, 80, 90, 95, 97, 99, 100, 101, 103, 105, 110, 120, 1000, 1005}

\* one enabled series with an earlier and a later observation, fetched in
\* either order
ChangeInit ==
  /\ now = 0
  /\ signals = {}
  /\ nextId = 1
  /\ scores = <<>>
  /\ durable = <<>>
  /\ run = [r \in Runners |-> Idle]
  /\ basis = [k \in Theses \X (0..MaxDay) |-> NoBasis]
  /\ orphaned = {}
  /\ ret = NoRet
  /\ NoText /\ NoFeed /\ NoTrend
  /\ \E logic \in DirectionLogics :
       data_series = {DataSeries(SeriesOrder[1], ThesisOrder[1], logic, 1)}
  /\ \E prev_val \in PreviousValues, latest_val \in LatestValues, first \in {1, 2} :
       data_points = { DataPoint(first, SeriesOrder[1], 0, prev_val),
                       DataPoint(3 - first, SeriesOrder[1], 1, latest_val) }
  /\ stats = NoStats

ChangeNext == GenerateAll({})

ChangeSpec == ChangeInit /\ [][ChangeNext]_vars

\* ------------------------------------------ compute_trend_direction
\* A score is a number of hundredths.  The floats of compute_trend_direction are
\* IEEE binary64 numbers; the ones met here are written [h, r] over a
\* denominator D, standing for exactly (h * 2^53 + r) / (D * 2^53): h / D is
\* the value in exact arithmetic and r the rounding error carried so far.
\* bits of the significand of a binary64 number
MantissaBits == 53
\* window: int = 7
TrendWindow == 7
\* delta > 0.5, delta < -0.5, in hundredths
TrendThreshold == 50

RECURSIVE Pow2(_)
Pow2(k) == IF k = 0 THEN 1 ELSE 2 * Pow2(k - 1)

RECURSIVE PowMod(_, _)
\* 2^k mod D
PowMod(k, D) == IF k = 0 THEN 1 % D ELSE (2 * PowMod(k - 1, D)) % D

\* the e with 2^e <= x < 2^(e + 1), for 1 <= x < 128
Binade(h, r, D) ==
  CHOOSE e \in 0..6 :
    /\ h > D * Pow2(e) \/ (h = D * Pow2(e) /\ r >= 0)
    /\ ~(h > D * Pow2(e + 1) \/ (h = D * Pow2(e + 1) /\ r >= 0))

\* the float result of an operation whose exact result is x = [h, r] over D:
\* the multiple of 2^(e - 52) nearest to x, the even one at a tie
RoundNearest(h, r, D) ==
  IF h = 0 THEN [h |-> 0, r |-> 0]
  ELSE LET j == Binade(h, r, D) + 1
           grid == D * Pow2(j)
           rem == (((h * PowMod(MantissaBits - j, D)) % D) * Pow2(j) + r) % grid
           rem2 == (((h * PowMod(MantissaBits - j - 1, D)) % D) * Pow2(j + 1) + r)
                     % (2 * grid)
           odd == rem2 >= grid
       IN IF 2 * rem < grid \/ (2 * rem = grid /\ ~odd)
          THEN [h |-> h, r |-> r - rem]
          ELSE [h |-> h, r |-> r + grid - rem]

\* p["score"]: the float nearest to the score of two decimals
FloatOf(score) == RoundNearest(score, 0, 100)

RECURSIVE FloatSum(_, _, _)
\* sum(scores[...]) continued from acc, series being the slice summed
\* (next is the rounded sum so far, computed once)
FloatSum(series, acc, n) ==
  IF n > Len(series) THEN acc
  ELSE CHOOSE total \in
         {FloatSum(series, next, n + 1) :
            next \in {RoundNearest(acc.h + FloatOf(series[n]).h,
                                   acc.r + FloatOf(series[n]).r, 100)}} : TRUE

\* sum(window_scores) / window, over the denominator 100 * window
FloatMean(window_scores, window) ==
  LET total == FloatSum(window_scores, [h |-> 0, r |-> 0], 1)
  IN RoundNearest(total.h, total.r, 100 * window)

\* scores[-n:]
LastN(series, n) ==
  IF Len(series) <= n THEN series ELSE SubSeq(series, Len(series) - n + 1, Len(series))

\* scores[-2 * window : -window]
PriorWindow(series, window) ==
  SubSeq(series, Len(series) - 2 * window + 1, Len(series) - window)

\* compute_trend_direction.  recent - prior is exact (both are multiples of
\* 2^-52 and the difference compared is below 2), so delta > 0.5 is decided on
\* the exact difference of the two float means.
ComputeTrendDirection(series, window) ==
  IF Len(series) < window * 2 THEN "stable"
  ELSE LET recent == FloatMean(LastN(series, window), window)
           prior == FloatMean(PriorWindow(series, window), window)
           dh == recent.h - prior.h
           dr == recent.r - prior.r
       IN IF dh > window * TrendThreshold \/ (dh = window * TrendThreshold /\ dr > 0)
          THEN "rising"
          ELSE IF dh < 0 - window * TrendThreshold
                  \/ (dh = 0 - window * TrendThreshold /\ dr < 0)
          THEN "falling"
          ELSE "stable"

\* trend_dir = AggregationService.compute_trend_direction(trend_data)
TrendCall ==
  /\ ~ret.called
  /\ ret' = [called |-> TRUE, trend |-> ComputeTrendDirection(trend_data, TrendWindow)]
  /\ UNCHANGED <<now, signals, nextId, scores, durable, run, basis, orphaned>>
  /\ UNCHANGED <<normVars, feedVars, genVars, trendVars>>

\* the scores tried: the ends of the gauge, the neutral score and scores half a
\* point apart
TrendScores == {100, 500, 520, 550, 570, 1000}
\* most scores older than the two windows
MaxOlder == 1

\* a window of one score, the first day apart
TrendWindows ==
  {[i \in 1..TrendWindow |-> IF i = 1 THEN a ELSE b] : a, b \in TrendScores}

\* the series: older scores, the prior window, the recent window; a short
\* series lacks its first day
TrendInputs ==
  LET Older == UNION {[1..n -> {100, 1000}] : n \in 0..MaxOlder}
      Full == {o \o p \o q : o \in Older, p \in TrendWindows, q \in TrendWindows}
  IN Full \cup {Tail(p \o q) : p \in {<<a, a, a, a, a, a, a>> : a \in TrendScores},
                               q \in TrendWindows}

TrendInit ==
  /\ now = 0
  /\ signals = {}
  /\ nextId = 1
  /\ scores = <<>>
  /\ durable = <<>>
  /\ run = [r \in Runners |-> Idle]
  /\ basis = [k \in Theses \X (0..MaxDay) |-> NoBasis]
  /\ orphaned = {}
  /\ ret = NoRet
  /\ NoText /\ NoFeed /\ NoSeries
  /\ trend_data \in TrendInputs

TrendNext == TrendCall

TrendSpec == TrendInit /\ [][TrendNext]_vars

\* ------------------------------------------------------ get_previous_score
\* None where a score is expected (a score is 100 at least)
NoScore == 0

\* SELECT composite_score FROM daily_scores WHERE thesis_id = ?
\* ORDER BY score_date DESC LIMIT 1 OFFSET 1; row["composite_score"] if row else None
GetPreviousScore(tbl, thesis_id) ==
  LET rows == {tbl[i] : i \in {k \in 1..Len(tbl) : tbl[k].thesis_id = thesis_id}}
      newest == {x \in rows : \A y \in rows : y.score_date <= x.score_date}
      second == {x \in rows \ newest : \A y \in rows \ newest : y.score_date <= x.score_date}
  IN IF second = {} THEN NoScore ELSE (CHOOSE x \in second : TRUE).composite_score

RECURSIVE ComputeDailyScores(_, _, _, _)
\* compute_daily_scores run from start to end: the upsert of every thesis from n on
ComputeDailyScores(tbl, sigs, today, n) ==
  IF n > Len(ThesisOrder) THEN tbl
  ELSE ComputeDailyScores(
         Upsert(tbl, ScoreRow(ThesisOrder[n], today, ComputeScore(sigs, ThesisOrder[n], today))),
         sigs, today, n + 1)

\* get_dashboard up to previous = await agg.get_previous_score(tid): today's
\* scores are recomputed and committed, then the previous score is read
PreviousCall(thesis_id) ==
  /\ \A t \in Theses : ~Raises(signals, t, now)
  /\ scores' = ComputeDailyScores(scores, signals, now, 1)
  /\ durable' = scores'
  /\ orphaned' = {}
  /\ ret' = [called |-> TRUE, thesis_id |-> thesis_id,
             previous |-> GetPreviousScore(scores', thesis_id)]
  /\ UNCHANGED <<now, signals, nextId, run, basis>>
  /\ UNCHANGED <<normVars, feedVars, genVars, trendVars>>

\* the earliest day with a stored score is MaxBack days before today
MaxBack == 3

\* the score stored for a day d before today (day 0): a different one each day
HistoryScore(d) == GaugeMid + 50 * d

RECURSIVE History(_, _, _)
\* daily_scores as the runs of the days d .. -1 left it, days[t] being the days
\* on which a run scored thesis t
History(d, days, tbl) ==
  IF d >= 0 THEN tbl
  ELSE History(d + 1, days,
               tbl \o SelectSeq([i \in 1..Len(ThesisOrder) |->
                                   ScoreRow(ThesisOrder[i], d,
                                            [EmptyResult EXCEPT !.composite_score = HistoryScore(d)])],
                                LAMBDA row : d \in days[row.thesis_id]))

PreviousInit ==
  /\ now = 0
  /\ signals \in {{}, {SignalRow(1, ThesisOrder[1], "supporting", 10, ManualConfidence,
                                 SignalDate(0, "date"), 1)}}
  /\ nextId = 2
  /\ \E days \in [Theses -> SUBSET ((0 - MaxBack)..(0 - 1))] :
       scores = History(0 - MaxBack, days, <<>>)
  /\ durable = scores
  /\ run = [r \in Runners |-> Idle]
  /\ basis = [k \in Theses \X (0..MaxDay) |-> NoBasis]
  /\ orphaned = {}
  /\ ret = NoRet
  /\ NoText /\ NoFeed /\ NoSeries /\ NoTrend

PreviousNext == \E t \in Theses : PreviousCall(t)

PreviousSpec == PreviousInit /\ [][PreviousNext]_vars

\* ================================================================ claims
\* the call has returned a value
Returned == ret.called /\ ~ret.raised

\* the stored signals of the thesis the call was made for
OfThesis == {s \in signals : s.thesis_id = ret.thesis_id}

\* signal_date is before as_of_date - 30 days
DatedBeforeWindow(s) == s.signal_date.day < now - 30

\* signal_date is after as_of_date
DatedAfter(s) ==
  \/ s.signal_date.day > now
  \/ (s.signal_date.day = now /\ s.signal_date.form # "date")

\* as_of_date - 30 days <= signal_date <= as_of_date
InWindow(s) == ~DatedBeforeWindow(s) /\ ~DatedAfter(s)

\* C1: every composite_score that _compute_score returns lies in [1.0, 10.0],
\* whatever the directions, strengths, confidences and dates of the signals.
C1_CompositeInRange ==
  Returned => (100 <= ret.result.composite_score /\ ret.result.composite_score <= 1000)

C1_Witness ==
  /\ Returned
  /\ ret.result.signal_count = 2
  /\ ret.result.composite_score = 100

\* C2: signal_count is supporting_count + weakening_count and is the number of
\* the thesis's signals with cutoff <= signal_date <= as_of_date, each counted
\* once whatever its confidence or strength.
C2_CountsUnweighted ==
  Returned =>
    /\ ret.result.signal_count = ret.result.supporting_count + ret.result.weakening_count
    /\ ret.result.signal_count = Cardinality({s \in OfThesis : InWindow(s)})
    /\ ret.result.supporting_count =
         Cardinality({s \in OfThesis : InWindow(s) /\ s.direction = "supporting"})

C2_Witness ==
  /\ Returned
  /\ ret.result.signal_count = 2
  /\ \E a, b \in OfThesis :
       /\ InWindow(a) /\ InWindow(b)
       /\ a.confidence = 0 /\ b.confidence > 0
       /\ a.strength # b.strength

\* C3: with no signal of the thesis inside the window the call returns
\* composite_score 5.0 and the three counts 0, and does not raise.
C3_EmptyIsNeutral ==
  (ret.called /\ {s \in OfThesis : InWindow(s)} = {}) =>
    /\ ~ret.raised
    /\ ret.result = [composite_score |-> 500, signal_count |-> 0,
                     supporting_count |-> 0, weakening_count |-> 0]

C3_Witness ==
  /\ Returned
  /\ ret.result.composite_score = 500
  /\ \E s \in OfThesis : DatedBeforeWindow(s)
  /\ \E s \in OfThesis : DatedAfter(s)

\* C4: a signal dated before as_of_date - 30 days or after as_of_date has no
\* effect on the outcome of the call (the outcome is the same with the signal
\* removed from the table), and a signal dated exactly as_of_date - 30 days or
\* exactly as_of_date is among the signals counted.
C4_OnlyWindowScores ==
  ret.called =>
    \A s \in signals :
      /\ (DatedBeforeWindow(s) \/ DatedAfter(s)) =>
           /\ Raises(signals \ {s}, ret.thesis_id, now) = ret.raised
           /\ ~ret.raised =>
                ComputeScore(signals \ {s}, ret.thesis_id, now) = ret.result
      /\ ( /\ s \in OfThesis
           /\ s.signal_date \in {SignalDate(now - 30, "date"), SignalDate(now, "date")}
           /\ ~ret.raised ) =>
           ret.result.signal_count =
             ComputeScore(signals \ {s}, ret.thesis_id, now).signal_count + 1

C4_Witness ==
  /\ Returned
  /\ ret.result.signal_count = 1
  /\ \E s \in OfThesis : s.signal_date = SignalDate(now - 30, "date")
  /\ \E s \in OfThesis : s.signal_date = SignalDate(now - 31, "date")

\* C5: a single in-window signal with confidence > 0 gives 5.5 + 0.45 * strength
\* when supporting and 5.5 - 0.45 * strength when weakening, whatever its
\* confidence and age (so strength 10 gives 10.0 and 1.0).
C5_SingleSignal ==
  Returned =>
    \A s \in OfThesis :
      ({x \in OfThesis : InWindow(x)} = {s} /\ s.confidence > 0) =>
        ret.result.composite_score =
          IF s.direction = "supporting" THEN 550 + 45 * s.strength
                                        ELSE 550 - 45 * s.strength

C5_Witness ==
  /\ Returned
  /\ ret.result.composite_score = 1000
  /\ \E s \in OfThesis :
       /\ {x \in OfThesis : InWindow(x)} = {s}
       /\ s.confidence = 50
       /\ s.signal_date.day = now - 30

\* C6: two in-window signals of equal strength, equal confidence > 0 and equal
\* signal_date with opposite directions give composite_score 5.5, signal_count 2,
\* supporting_count 1 and weakening_count 1.
C6_OppositePairCancels ==
  Returned =>
    \A a, b \in OfThesis :
      ( /\ {x \in OfThesis : InWindow(x)} = {a, b}
        /\ a.direction = "supporting" /\ b.direction = "weakening"
        /\ a.strength = b.strength
        /\ a.confidence = b.confidence /\ a.confidence > 0
        /\ a.signal_date = b.signal_date ) =>
        ret.result = [composite_score |-> 550, signal_count |-> 2,
                      supporting_count |-> 1, weakening_count |-> 1]

C6_Witness ==
  /\ Returned
  /\ ret.result.composite_score = 550
  /\ \E a, b \in OfThesis :
       /\ {x \in OfThesis : InWindow(x)} = {a, b}
       /\ a.direction = "supporting" /\ b.direction = "weakening"
       /\ a.strength = 10 /\ b.strength = 10
       /\ a.confidence = 50 /\ b.confidence = 50
       /\ a.signal_date = b.signal_date

\* a run is taking its upsert step for the key (thesis_id, score_date)
Upserting(r, thesis_id, score_date) ==
  /\ run[r].pc = "upsert"
  /\ run'[r].pc # "upsert"
  /\ ThesisOrder[run[r].idx] = thesis_id
  /\ run[r].today = score_date

\* C7: daily_scores never holds two rows with the same (thesis_id, score_date),
\* neither as the connection sees it nor as committed.
C7_OneRowPerKey ==
  \A tbl \in {scores, durable} :
    \A i, j \in 1..Len(tbl) :
      (tbl[i].thesis_id = tbl[j].thesis_id /\ tbl[i].score_date = tbl[j].score_date)
        => i = j

\* a run has gone over every thesis on a date that already had committed rows,
\* and changed one of them in place
C7_Witness ==
  \E r \in Runners :
    /\ run[r].pc = "commit"
    /\ \A t \in Theses : RowsAt(durable, t, run[r].today) # {}
    /\ Len(scores) = Len(durable)
    /\ scores # durable

C9_OnlyTodaysRow ==
  [][/\ Len(scores') >= Len(scores)
     /\ \A i \in 1..Len(scores) :
          scores'[i] # scores[i] =>
            \E r \in Runners : Upserting(r, scores[i].thesis_id, scores[i].score_date)
     /\ \A j \in (Len(scores) + 1)..Len(scores') :
          \E r \in Runners : Upserting(r, scores'[j].thesis_id, scores'[j].score_date)]_vars

\* the row of day 0 was computed without a signal, a signal dated day 0 is in
\* the store, and the run of day 1 has counted it in the row of day 1
C9_Witness ==
  \E i, j \in 1..Len(scores) :
    /\ scores[i].thesis_id = scores[j].thesis_id
    /\ scores[i].score_date = 0 /\ scores[i].signal_count = 0
    /\ scores[j].score_date = 1 /\ scores[j].signal_count = 1
    /\ \E s \in signals :
         s.thesis_id = scores[i].thesis_id /\ s.signal_date = SignalDate(0, "date")

\* C10: the rows a failed run upserted before it failed are never made durable
\* by a later commit on the connection.
C10_FailedRunLeavesNothing ==
  [][\A k \in orphaned : RowsAt(durable', k[1], k[2]) = RowsAt(durable, k[1], k[2])]_vars

\* ------------------------------------------------------------- the feed
Cands == 1..Len(sig_rows)

\* the candidates that are in the feed
AcceptedSet == {i \in Cands : \E n \in 1..Len(recent_signals) : recent_signals[n] = sig_rows[i]}

\* two key triples have a non-empty key in common
Shares(a, b) ==
  \/ a.url # "" /\ a.url = b.url
  \/ a.title # <<>> /\ a.title = b.title
  \/ a.quote # <<>> /\ a.quote = b.quote

AllKeysEmpty(k) == k.url = "" /\ k.title = <<>> /\ k.quote = <<>>

\* the pairs of candidates that share a key
Links ==
  LET K == {<<i, Keys(sig_rows[i])>> : i \in Cands}
  IN {<<p[1], q[1]>> : <<p, q>> \in {pq \in K \X K : Shares(pq[1][2], pq[2][2])}}

\* the candidates whose three keys are empty
Keyless == {i \in Cands : AllKeysEmpty(Keys(sig_rows[i]))}

\* the number of candidates before i that are in A
Before_(A, i) == Cardinality(A \cap 1..(i - 1))

\* C11: a candidate is accepted exactly when fewer than 10 candidates were
\* accepted before it and it shares no non-empty key with a candidate accepted
\* before it (the keys of skipped candidates do not count); a candidate whose
\* three keys are empty is accepted whenever the limit is not reached.
C11_AcceptedIffNewKeys ==
  ret.called =>
    LET A == AcceptedSet
        L == Links
    IN /\ \A i \in Cands :
            i \in A <=>
              /\ Before_(A, i) < FeedLimit
              /\ \A j \in A : j < i => <<i, j>> \notin L
       /\ \A i \in Keyless : Before_(A, i) < FeedLimit => i \in A

\* a duplicate is skipped, a candidate sharing a key only with that skipped one
\* is accepted, an all-empty candidate is accepted and one is cut by the limit
C11_Witness ==
  /\ ret.called
  /\ LET A == AcceptedSet
         L == Links
     IN /\ \E j, n \in A : \E i \in Cands \ A :
             j < i /\ i < n /\ <<i, j>> \in L /\ <<n, i>> \in L
        /\ Keyless \cap A # {}
        /\ \E i \in Cands \ A : Before_(A, i) = FeedLimit

\* the place of a feed entry in the candidate list
Place(n) == CHOOSE i \in Cands : sig_rows[i] = recent_signals[n]

\* C12: no two entries of recent_signals share a non-empty source_url,
\* normalized title or normalized quote; the list has at most 10 entries; it is
\* a subsequence of the candidates, which are the rows of the thesis of the last
\* 24 hours, and so stays ordered by strength descending, confidence descending.
C12_FeedDistinctOrdered ==
  ret.called =>
    LET N == 1..Len(recent_signals)
    IN /\ \A m, n \in N :
            m # n => ~Shares(Keys(recent_signals[m]), Keys(recent_signals[n]))
       /\ Len(recent_signals) <= FeedLimit
       /\ \A n \in N : \E i \in Cands : sig_rows[i] = recent_signals[n]
       /\ \A m, n \in N : m < n => Place(m) < Place(n)
       /\ \A m, n \in N : m < n => ~Before(recent_signals[n], recent_signals[m])
       /\ \A n \in N : recent_signals[n] \in FeedMatches(signals, ret.thesis_id, now)

\* a feed of ten entries, two of them with keys, out of candidates of which one
\* was skipped as a duplicate
C12_Witness ==
  /\ ret.called
  /\ Len(recent_signals) = FeedLimit
  /\ Cardinality(AcceptedSet \ Keyless) >= 2
  /\ \E i \in Cands \ AcceptedSet : Before_(AcceptedSet, i) < FeedLimit

\* the candidates linked to those of I through shared keys
RECURSIVE Group(_, _)
Group(L, I) ==
  LET J == I \cup {e[2] : e \in {x \in L : x[1] \in I}}
  IN IF J = I THEN I ELSE Group(L, J)

\* C13: every candidate skipped as a duplicate shares a key with an accepted
\* candidate that precedes it, and the first candidate of every group of
\* candidates linked by shared keys is accepted unless the limit was reached.
C13_KeepsFirstOfCluster ==
  ret.called =>
    LET A == AcceptedSet
        L == Links
    IN /\ \A i \in Cands \ A :
            Before_(A, i) < FeedLimit => \E j \in A : j < i /\ <<i, j>> \in L
       /\ \A i \in Cands :
            (\A j \in Group(L, {i}) : i <= j) /\ Before_(A, i) < FeedLimit => i \in A

\* a group of three candidates linked in a chain: the first accepted, the second
\* skipped, the third, which shares a key with the second only, accepted
C13_Witness ==
  /\ ret.called
  /\ LET A == AcceptedSet
         L == Links
     IN \E i, n \in A : \E j \in Cands \ A :
          /\ i < j /\ j < n
          /\ Group(L, {i}) = {i, j, n}
          /\ <<i, n>> \notin L

\* ------------------------------------------------------- the normalizers
IsPunctuation(c) == c \notin Letters \cup Digits \cup Whitespace

IsGap(c) == c \notin Letters \cup Digits

\* the same text but for the case of letters
CaseDiffers(a, b) ==
  /\ Len(a) = Len(b)
  /\ \A i \in DOMAIN a : a[i] = b[i] \/ (a[i] \in Letters /\ b[i] = ToggleCase(a[i]))

\* the same text but for which punctuation mark stands at a place
MarkDiffers(a, b) ==
  /\ Len(a) = Len(b)
  /\ \A i \in DOMAIN a : a[i] = b[i] \/ (IsPunctuation(a[i]) /\ IsPunctuation(b[i]))

\* the same text but for a hyphen where the other has a space
HyphenDiffers(a, b) ==
  /\ Len(a) = Len(b)
  /\ \A i \in DOMAIN a : a[i] = b[i] \/ {a[i], b[i]} = {"-", " "}

\* b is a without one of its punctuation marks
MarkDropped(a, b) ==
  \E i \in DOMAIN a : IsPunctuation(a[i]) /\ b = Without(a, i)

\* b is a without a punctuation mark that stands at an end of a or next to a
\* space or to another punctuation mark
MarkDroppedAtGap(a, b) ==
  \E i \in DOMAIN a :
    /\ IsPunctuation(a[i]) /\ b = Without(a, i)
    /\ i = 1 \/ i = Len(a) \/ IsGap(a[i - 1]) \/ IsGap(a[i + 1])

\* the feed of two candidates that have nothing but these quotes
FeedOfQuotes(a, b) ==
  Dedupe(<< FeedRow(1, ThesisOrder[1], 7, 10, "", <<>>, a, 0),
            FeedRow(2, ThesisOrder[1], 7, 10, "", <<>>, b, 0) >>)

\* C14 as stated: two quotes that differ only in letter case, in punctuation
\* (marks that differ or that only one of them has) or in a hyphen against a
\* space have the same normalized key and at most one of them is in the feed;
\* _normalize_quote is idempotent and maps an empty or punctuation-only quote to
\* the empty key.
C14_SameKeyAnyPunctuation ==
  ret.called =>
    /\ ( \/ CaseDiffers(text, other) \/ MarkDiffers(text, other)
         \/ HyphenDiffers(text, other)
         \/ MarkDropped(text, other) \/ MarkDropped(other, text) )
       => ret.quote = ret.other_quote /\ Len(FeedOfQuotes(text, other)) <= 1
    /\ ret.quote_again = ret.quote
    /\ (\A i \in DOMAIN text : IsPunctuation(text[i])) => ret.quote = <<>>

\* C14 amended: two quotes that differ only in letter case, in which punctuation
\* mark stands at a place, in a hyphen against a space, or in a punctuation mark
\* that stands at an end or next to a space or another mark, have the same
\* normalized key, and when that key is not empty exactly one of them is in the
\* feed; _normalize_quote is idempotent and maps an empty or punctuation-only
\* quote to the empty key.
C14_SameKeyModuloMarks ==
  ret.called =>
    /\ ( \/ CaseDiffers(text, other) \/ MarkDiffers(text, other)
         \/ HyphenDiffers(text, other)
         \/ MarkDroppedAtGap(text, other) \/ MarkDroppedAtGap(other, text) )
       => /\ ret.quote = ret.other_quote
          /\ ret.quote # <<>> => Len(FeedOfQuotes(text, other)) = 1
    /\ ret.quote_again = ret.quote
    /\ (\A i \in DOMAIN text : IsPunctuation(text[i])) => ret.quote = <<>>

\* "cash-flow" against "cash flow": one key, not empty
C14_Witness ==
  /\ ret.called
  /\ text # other
  /\ HyphenDiffers(text, other)
  /\ \E i \in DOMAIN text : text[i] = "-" /\ other[i] = " "
  /\ Len(text) >= 9
  /\ ret.quote = ret.other_quote
  /\ ret.quote # <<>>

\* t ends in a separator followed by a capitalized source name that holds no
\* further separator
HasAttribution(t) ==
  LET i == LastSeparator(t)
      name == LStrip(SubSeq(t, i + 1, Len(t)))
  IN i > 0 /\ name # <<>> /\ name[1] \in Uppercase

\* C15: _normalize_title strips nothing but a trailing attribution (a final
\* separator followed by a capitalized source name); "Foo Bar - CNBC" and
\* "Foo Bar | Bloomberg" get one key; two titles without attribution whose
\* headline texts differ, be it in a final hyphenated or lowercase word, keep
\* different keys.
C15_StripsOnlyAttribution ==
  ret.called =>
    /\ StripAttribution(text) # text => HasAttribution(text)
    /\ text = <<"F", "o", "o", " ", "B", "a", "r", " ", "-", " ", "C", "N", "B", "C">>
         /\ other = <<"F", "o", "o", " ", "B", "a", "r", " ", "|", " ", "B", "l", "o", "o", "m", "b", "e", "r", "g">>
         => ret.title = ret.other_title
    /\ ~HasAttribution(text) /\ ~HasAttribution(other) /\ ret.quote # ret.other_quote
         => ret.title # ret.other_title

\* --------------------------------------------------------- the generator
\* the step is a generate_all run in which the series of raising raise
Run(raising) == GenerateAll(raising)

\* the series has a latest observation and a signal refers to it
LatestHasSignal(series_id) ==
  /\ PointsOf(data_points, series_id) # {}
  /\ \E s \in signals : HasPoint(s, LatestOf(PointsOf(data_points, series_id)).id)

\* the signals the step inserts for a series
Inserted(series_id) ==
  {s \in signals' \ signals :
     \E p \in PointsOf(data_points, series_id) : HasPoint(s, p.id)}

Enabled(series_id) == \E d \in data_series : d.id = series_id /\ d.enabled = 1

\* C16: no two signals refer to the same observation; a run made while a
\* signal exists for the latest observation of an enabled series inserts no
\* signal for that series and counts it as skipped_duplicate (unless its
\* processing raises: then it is counted in errors).
C16_OneSignalPerObservation ==
  /\ [](\A s1, s2 \in signals :
          "data_point_id" \in DOMAIN s1 /\ HasPoint(s2, s1.data_point_id) => s1.id = s2.id)
  /\ [][\A raising \in SUBSET SeriesIds :
          Run(raising) =>
            /\ \A id \in SeriesIds \ raising :
                 Enabled(id) /\ LatestHasSignal(id) =>
                   Inserted(id) = {} /\ ret'.created[id] = "False"
            /\ stats'.skipped_duplicate =
                 Cardinality({id \in SeriesIds \ raising : Enabled(id) /\ LatestHasSignal(id)})
       ]_vars

\* a run has skipped a series as a duplicate while the table holds two signals
\* of that series, for two of its observations
C16_Witness ==
  /\ ret.called
  /\ \E id \in SeriesIds :
       /\ ret.created[id] = "False"
       /\ stats.skipped_duplicate >= 1
       /\ \E s1, s2 \in signals :
            /\ s1.id # s2.id
            /\ \E p1, p2 \in PointsOf(data_points, id) :
                 p1 # p2 /\ HasPoint(s1, p1.id) /\ HasPoint(s2, p2.id)

\* C17: a run counts every enabled series in exactly one of generated,
\* skipped_no_data, skipped_duplicate, errors; a series with fewer than two
\* observations is counted as skipped_no_data and gets no signal; a disabled
\* series is not processed and never has a signal; a series that raises is
\* counted in errors and the other series are processed as without it.
C17_EverySeriesCountedOnce ==
  /\ [](\A s \in signals : \A p \in data_points : HasPoint(s, p.id) => Enabled(p.series_id))
  /\ [][\A raising \in SUBSET SeriesIds :
          Run(raising) =>
            LET on == {id \in SeriesIds : Enabled(id)}
                few == {id \in on \ raising : Cardinality(PointsOf(data_points, id)) < 2}
                dup == {id \in on \ raising : LatestHasSignal(id)} \ few
                new == ((on \ raising) \ few) \ dup
            IN /\ stats'.generated + stats'.skipped_no_data
                    + stats'.skipped_duplicate + stats'.errors = Cardinality(on)
               /\ stats'.skipped_no_data = Cardinality(few)
               /\ stats'.skipped_duplicate = Cardinality(dup)
               /\ stats'.generated = Cardinality(new)
               /\ stats'.errors = Cardinality(on \cap raising)
               /\ \A id \in few : ret'.created[id] = "None" /\ Inserted(id) = {}
               /\ \A id \in new : ret'.created[id] = "True" /\ Cardinality(Inserted(id)) = 1
               /\ \A id \in on \cap raising : Inserted(id) = {}
               /\ \A id \in SeriesIds \ on :
                    ret'.created[id] = "unprocessed" /\ Inserted(id) = {}
       ]_vars

\* a run in which the first series raised and the second got its signal, and a
\* run that skipped one series for lack of data and one as a duplicate
C17_Witness ==
  /\ ret.called
  /\ \/ /\ ret.created[SeriesOrder[1]] = "raised"
        /\ ret.created[SeriesOrder[2]] = "True"
        /\ stats = [generated |-> 1, skipped_no_data |-> 0, skipped_duplicate |-> 0,
                    errors |-> 1]
     \/ /\ stats = [generated |-> 0, skipped_no_data |-> 1, skipped_duplicate |-> 1,
                    errors |-> 0]

\* ------------------------------------- direction and strength of a signal
\* the series, its two observations and the signal generated from them
TheSeries == CHOOSE d \in data_series : TRUE
PreviousValue == (CHOOSE p \in data_points : p.date = 0).value
LatestValue == (CHOOSE p \in data_points : p.date = 1).value
TheSignal == CHOOSE s \in signals : TRUE

\* C18: the direction of the signal is supporting exactly when the logic is
\* higher_supporting and latest > previous, or lower_supporting and not latest >
\* previous, and weakening otherwise; an unchanged value gives a signal too,
\* weakening under higher_supporting and supporting under lower_supporting.
C18_DirectionRule ==
  ret.called =>
    /\ Cardinality(signals) = 1
    /\ TheSignal.direction \in Directions
    /\ TheSignal.direction = "supporting" <=>
         \/ TheSeries.direction_logic = "higher_supporting" /\ LatestValue > PreviousValue
         \/ TheSeries.direction_logic = "lower_supporting" /\ ~(LatestValue > PreviousValue)
    /\ LatestValue = PreviousValue =>
         TheSignal.direction = IF TheSeries.direction_logic = "higher_supporting"
                               THEN "weakening" ELSE "supporting"

\* an unchanged value under higher_supporting has given a weakening signal
C18_Witness ==
  /\ ret.called
  /\ signals # {}
  /\ LatestValue = PreviousValue
  /\ TheSeries.direction_logic = "higher_supporting"
  /\ TheSignal.direction = "weakening"

\* the step of a = 100 * change / base, a fraction with base > 0
StepOf(change, base) ==
  CASE change < base -> 3
    [] base <= change /\ change < 3 * base -> 5
    [] 3 * base <= change /\ change < 5 * base -> 6
    [] 5 * base <= change /\ change < 10 * base -> 7
    [] 10 * base <= change /\ change < 20 * base -> 8
    [] 20 * base <= change -> 9

\* C19: with a = |latest - previous| / |previous| * 100, and a = 0 when previous
\* is 0, the strength is 3 if a < 1, 5 if 1 <= a < 3, 6 if 3 <= a < 5, 7 if
\* 5 <= a < 10, 8 if 10 <= a < 20, 9 if a >= 20; it does not decrease when a
\* grows, is one of 3, 5, 6, 7, 8, 9 and is 3 whenever previous is 0.
C19_StrengthSteps ==
  ret.called /\ signals # {} =>
    LET change == 100 * Abs(LatestValue - PreviousValue)
        base == Abs(PreviousValue)
    IN /\ TheSignal.strength \in {3, 5, 6, 7, 8, 9}
       /\ PreviousValue = 0 => TheSignal.strength = 3
       /\ PreviousValue # 0 => TheSignal.strength = StepOf(change, base)
       /\ \A p \in PreviousValues \ {0}, l \in LatestValues :
            PreviousValue # 0 /\ change * Abs(p) <= 100 * Abs(l - p) * base
              => TheSignal.strength <= PctToStrength(PctChange(p, l))

\* a zero previous value and a latest value that is not zero have given 3
C19_Witness ==
  /\ ret.called
  /\ signals # {}
  /\ PreviousValue = 0
  /\ LatestValue # 0
  /\ TheSignal.strength = 3

\* the series is lower_supporting, its previous value 100 and its latest 90
TenPercentDown ==
  /\ TheSeries.direction_logic = "lower_supporting"
  /\ PreviousValue = 100
  /\ LatestValue = 90

\* C20 as stated: lower_supporting, previous 100, latest 90 (pct_change -10)
\* gives a signal of direction supporting and strength 7.
C20_TenPercentIsSeven ==
  ret.called /\ TenPercentDown =>
    /\ signals # {}
    /\ TheSignal.direction = "supporting"
    /\ TheSignal.strength = 7

\* C20 amended: lower_supporting, previous 100, latest 90 (pct_change -10) gives
\* a signal of direction supporting and strength 8.
C20_TenPercentIsEight ==
  ret.called /\ TenPercentDown =>
    /\ signals # {}
    /\ TheSignal.direction = "supporting"
    /\ TheSignal.strength = 8

\* the run on that series has inserted its signal
C20_Witness ==
  /\ ret.called
  /\ TenPercentDown
  /\ ret.created[SeriesOrder[1]] = "True"
  /\ signals # {}

\* ------------------------------------------- the columns of a data signal
\* the newest observation of a series: none of the series has a later date
Newest(p, series_id) ==
  /\ p \in PointsOf(data_points, series_id)
  /\ \A q \in PointsOf(data_points, series_id) : q.date <= p.date

\* C21: every signal a generate_all run inserts belongs to an enabled series
\* with two observations or more and has confidence 0.8, the date of the
\* newest observation of the series as signal_date, the thesis of the series,
\* signal_type data, is_manual 0 and the id of that newest observation as
\* data_point_id; no signal it inserts refers to another observation.
C21_DataSignalColumns ==
  [][\A raising \in SUBSET SeriesIds :
       Run(raising) =>
         \A s \in signals' \ signals :
           \E d \in data_series : \E p \in data_points :
             /\ d.enabled = 1 /\ d.id \notin raising
             /\ Cardinality(PointsOf(data_points, d.id)) >= 2
             /\ Newest(p, d.id)
             /\ s.confidence = DataConfidence
             /\ s.signal_date = SignalDate(p.date, "date")
             /\ s.thesis_id = d.thesis_id
             /\ s.signal_type = "data"
             /\ s.is_manual = 0
             /\ s.data_point_id = p.id
             /\ \A q \in data_points : HasPoint(s, q.id) => q = p
    ]_vars

\* a run has inserted the signal of the second series, of the second thesis,
\* for its newest observation, which was stored before an older one
C21_Witness ==
  /\ ret.called
  /\ ret.created[SeriesOrder[2]] = "True"
  /\ \E s \in signals : \E p, q \in PointsOf(data_points, SeriesOrder[2]) :
       /\ Newest(p, SeriesOrder[2])
       /\ HasPoint(s, p.id)
       /\ s.thesis_id = ThesisOrder[2]
       /\ q.id > p.id /\ q.date < p.date

\* ------------------------------------------------------ the trend of a series
RECURSIVE SumOf(_)
SumOf(q) == IF q = <<>> THEN 0 ELSE Head(q) + SumOf(Tail(q))

\* 100 * window * delta in exact arithmetic: the sum of the last window scores
\* less the sum of the window scores before them
ExactDelta(q, window) == SumOf(LastN(q, window)) - SumOf(PriorWindow(q, window))

C23_AppendOnly ==
  [][\A s \in signals :
       /\ s.id \in Ids(signals') => s \in signals'
       /\ s.is_manual = 0 => s \in signals'
    ]_vars

\* ------------------------------------------------------ a completed run
\* the signals of a thesis
Own(t) == {s \in signals : s.thesis_id = t}

\* what the run read for each thesis is what the table holds now
ReadIsCurrent(r) ==
  \A t \in Theses :
    basis[Key(t, run[r].today)] = Ids(SelectSignals(Own(t), t, run[r].today))

\* C24: the result a run computes for a thesis is _compute_score of the
\* signals of that thesis alone; when the run commits, every thesis has one row
\* for (thesis, today of the run); if the signals the run read are the ones
\* the table holds, that row is _compute_score of the thesis's own signals,
\* and a thesis for which the run read no signal has 5.0 and zero counts.
C24_RunScoresEveryThesis ==
  [][\A r \in Runners :
       /\ ScoreThesis(r) =>
            run'[r].result =
              ComputeScore(Own(ThesisOrder[run[r].idx]), ThesisOrder[run[r].idx], run[r].today)
       /\ CommitRun(r) =>
            \A t \in Theses :
              /\ Cardinality(Conflicts(durable', t, run[r].today)) = 1
              /\ ReadIsCurrent(r) =>
                   RowsAt(durable', t, run[r].today) =
                     {ScoreRow(t, run[r].today, ComputeScore(Own(t), t, run[r].today))}
              /\ basis[Key(t, run[r].today)] = {} =>
                   RowsAt(durable', t, run[r].today) = {ScoreRow(t, run[r].today, EmptyResult)}
    ]_vars

\* a run has committed the row of a thesis scored from its signal and the
\* neutral row of the other thesis, no signal written since it read
C24_Witness ==
  /\ \A r \in Runners : run[r].pc = "idle"
  /\ durable = scores
  /\ \E t, u \in Theses :
       /\ Own(t) # {} /\ Own(u) = {}
       /\ basis[Key(t, now)] = Ids(Own(t))
       /\ RowsAt(durable, t, now) = {ScoreRow(t, now, ComputeScore(signals, t, now))}
       /\ \E row \in RowsAt(durable, t, now) : row.signal_count = Cardinality(Own(t))
       /\ RowsAt(durable, u, now) = {ScoreRow(u, now, EmptyResult)}

\* ------------------------------------------------------ the previous score
\* C25: get_previous_score(thesis) is the composite score of the row of the
\* thesis whose score_date is the day before today, and None when the thesis
\* has no row of that day, whatever other days have rows.
C25_PreviousIsYesterday ==
  ret.called =>
    LET yesterday == RowsAt(scores, ret.thesis_id, now - 1)
    IN IF yesterday = {} THEN ret.previous = NoScore
       ELSE \E row \in yesterday : ret.previous = row.composite_score

\* ------------------------------------------------------ a zero weight total
\* C26: when the thesis has in-window signals and every one of them has
\* confidence 0, the call does not raise and returns composite_score 5.5, not
\* the 5.0 of the empty case, with signal_count the number of those signals.
C26_ZeroWeightIsMidpoint ==
  ret.called =>
    LET W == {s \in OfThesis : InWindow(s)}
    IN (W # {} /\ \A s \in W : s.confidence = 0 /\ Parses(s.signal_date)) =>
         /\ ~ret.raised
         /\ ret.result.composite_score = GaugeMid
         /\ ret.result.composite_score # NeutralScore
         /\ ret.result.signal_count = Cardinality(W)
         /\ ret.result.signal_count > 0
         /\ ret.result.supporting_count + ret.result.weakening_count = Cardinality(W)

\* the call has scored two in-window signals of confidence 0, one supporting
\* and one weakening, beside nothing else
C26_Witness ==
  /\ Returned
  /\ ret.result.composite_score = GaugeMid
  /\ ret.result.signal_count = 2
  /\ \E a, b \in OfThesis :
       /\ {x \in OfThesis : InWindow(x)} = {a, b}
       /\ a.confidence = 0 /\ b.confidence = 0
       /\ a.direction = "supporting" /\ b.direction = "weakening"
       /\ a.strength # b.strength

\* ------------------------------------------------------ recency and confidence
\* the in-window signals of the thesis are a supporting a and a weakening b of
\* equal strength
OppositePair(a, b) ==
  /\ {x \in OfThesis : InWindow(x)} = {a, b}
  /\ a.direction = "supporting" /\ b.direction = "weakening"
  /\ a.strength = b.strength /\ a.strength >= 1

\* a is dated after b
MoreRecent(a, b) == a.signal_date.day > b.signal_date.day

\* both have the confidence, above 0
EqualConfidence(a, b) == a.confidence = b.confidence /\ a.confidence > 0

\* C27 as stated: of two in-window signals of equal strength >= 1 and opposite
\* directions, with equal confidence > 0 the more recent one puts the
\* composite strictly on its side of 5.5; dated the same day, the one with the
\* strictly higher confidence puts the composite strictly on its side of 5.5.
C27_StrictlyOnTheHeavierSide ==
  Returned =>
    \A a, b \in OfThesis :
      OppositePair(a, b) =>
        /\ EqualConfidence(a, b) /\ MoreRecent(a, b) => ret.result.composite_score > GaugeMid
        /\ EqualConfidence(a, b) /\ MoreRecent(b, a) => ret.result.composite_score < GaugeMid
        /\ a.signal_date = b.signal_date /\ a.confidence > b.confidence
             => ret.result.composite_score > GaugeMid
        /\ a.signal_date = b.signal_date /\ a.confidence < b.confidence
             => ret.result.composite_score < GaugeMid

\* 0.45 * strength * (hi - lo) / (hi + lo) is above half a hundredth
Visible(strength, hi, lo) == 2 * GaugeSlope * strength * (hi - lo) > hi + lo

\* and below half a hundredth
Invisible(strength, hi, lo) == 2 * GaugeSlope * strength * (hi - lo) < hi + lo

\* C27 amended: with equal confidence > 0 the more recent signal puts the
\* composite strictly on its side of 5.5; dated the same day, the signal with
\* the higher confidence never leaves the composite on the other side, puts it
\* strictly on its own side when 0.45 * strength * (hi - lo) / (hi + lo) is
\* above 0.005 and leaves it at 5.5 when that is below 0.005.
C27_OnTheHeavierSide ==
  Returned =>
    \A a, b \in OfThesis :
      OppositePair(a, b) =>
        /\ EqualConfidence(a, b) /\ MoreRecent(a, b) => ret.result.composite_score > GaugeMid
        /\ EqualConfidence(a, b) /\ MoreRecent(b, a) => ret.result.composite_score < GaugeMid
        /\ a.signal_date = b.signal_date /\ a.confidence > b.confidence =>
             /\ ret.result.composite_score >= GaugeMid
             /\ Visible(a.strength, a.confidence, b.confidence)
                  => ret.result.composite_score > GaugeMid
             /\ Invisible(a.strength, a.confidence, b.confidence)
                  => ret.result.composite_score = GaugeMid
        /\ a.signal_date = b.signal_date /\ a.confidence < b.confidence =>
             /\ ret.result.composite_score <= GaugeMid
             /\ Visible(a.strength, b.confidence, a.confidence)
                  => ret.result.composite_score < GaugeMid
             /\ Invisible(a.strength, b.confidence, a.confidence)
                  => ret.result.composite_score = GaugeMid

\* the call has scored a supporting signal of confidence 0.46 and a weakening
\* one of 0.45, both of strength 1 and of today, and returned 5.5
C27_Witness ==
  /\ Returned
  /\ ret.result.composite_score = GaugeMid
  /\ \E a, b \in OfThesis :
       /\ OppositePair(a, b)
       /\ a.signal_date = b.signal_date
       /\ a.strength = 1 /\ a.confidence = 46 /\ b.confidence = 45

\* ------------------------------------------------------ overlapping runs
\* the ids of the signals the table now holds for the key
Current(t, d) == Ids(SelectSignals(signals, t, d))

DayInWindow(s) ==
  /\ Parses(s.signal_date)
  /\ now - Window <= s.signal_date.day /\ s.signal_date.day <= now

\* C29: every signal of the thesis whose calendar day lies in
\* [as_of_date - 30 days, as_of_date] is scored and counted, whether its
\* signal_date is a bare date or carries a time of day; a signal dated on
\* as_of_date itself is among them.
C29_WholeDayInWindow ==
  Returned =>
    /\ ret.result.signal_count = Cardinality({s \in OfThesis : DayInWindow(s)})
    /\ \A s \in OfThesis :
         DayInWindow(s) /\ s.signal_date.day = now =>
           ComputeScore(signals \ {s}, ret.thesis_id, now).signal_count
             = ret.result.signal_count - 1

\* ------------------------------------------------------ a full feed
\* the signals of the thesis created in the trailing 24 hours
Trailing == FeedMatches(signals, ret.thesis_id, now)

\* every one of them has a source_url and neither a title nor a quote: two of
\* them are duplicates exactly when they have the same source_url
UrlOnly ==
  \A r \in Trailing : r.source_url # "" /\ Keys(r).title = <<>> /\ Keys(r).quote = <<>>

\* how many mutually non-duplicate signals they hold
Available == Cardinality({r.source_url : r \in Trailing})

\* C30: when the signals of the thesis created in the trailing 24 hours hold 10
\* mutually non-duplicate signals, the feed has exactly 10 entries; the feed
\* is never shorter than the number of mutually non-duplicate signals among
\* them, up to 10.  (Stated for signals told apart by their source_url alone.)
C30_FeedIsFull ==
  ret.called /\ UrlOnly =>
    /\ Len(recent_signals) >= Min(FeedLimit, Available)
    /\ Available >= FeedLimit => Len(recent_signals) = FeedLimit
====
